---- MODULE Spec2Model ----
(***************************************************************************)
(* Verification model of the JSONLogic visualisation engine:              *)
(*   - the label formatter and tree builder (lib/tree/parser),            *)
(*   - the tree layout engine (lib/tree/layout),                          *)
(*   - the expansion operations used by the RuleTree component,           *)
(*   - the Mermaid flowchart emitter (lib/mermaid/converter),             *)
(*   - the zoom controls and fit-to-screen of the RuleTree component,     *)
(*   - the guided rule builder and the JSON editor text it writes,        *)
(*   - the single-rule / multi-rule classifiers,                          *)
(*   - the debounced asynchronous rendering of MermaidPreview.            *)
(*                                                                         *)
(* JavaScript strings are sequences of one-character strings, so that     *)
(* escaping, truncation and concatenation are computed, not assumed.      *)
(* JavaScript optional fields are sequences of length 0 (undefined) or 1. *)
(* Objects that the code mutates in place live in a heap of tree objects. *)
(***************************************************************************)
EXTENDS Integers, Sequences, FiniteSets, TLC

(***************************************************************************)
(* Bounds of the model                                                     *)
(***************************************************************************)
\* largest operand count of the generated if / ?: rules
MaxIfOperands == 6
\* call-stack frames available to the recursive tree builder
StackLimit == 14
\* number of user operations in one behaviour of the tree view
MaxOps == 4
\* number of emitter calls in one behaviour
MaxEmits == 3
\* number of parseRuleToTree calls in one behaviour of the compiler
MaxBuilds == 3
\* number of changes made in the rule builder in one behaviour
MaxEdits == 3
\* number of changes of the code prop of MermaidPreview in one behaviour
MaxChanges == 3
\* number of uses of the zoom buttons and the wheel in one behaviour: 1.2^7 > 3
MaxZooms == 7

(***************************************************************************)
(* JavaScript strings                                                      *)
(***************************************************************************)
sNull == <<"n","u","l","l">>
sUndefined == <<"u","n","d","e","f","i","n","e","d">>
sTrue == <<"t","r","u","e">>
sFalse == <<"f","a","l","s","e">>
sVar == <<"v","a","r">>
sIf == <<"i","f">>
sTernary == <<"?",":">>
sAnd == <<"a","n","d">>
sOr == <<"o","r">>
sNot == <<"!">>
sNotNot == <<"!","!">>
sIn == <<"i","n">>
sData == <<"d","a","t","a">>
sThen == <<"t","h","e","n">>
sElse == <<"e","l","s","e">>
sItem == <<"(","i","t","e","m",")">>
sCurrentItem == <<"(","c","u","r","r","e","n","t"," ","i","t","e","m",")">>
sIfPlaceholder == <<"I","F"," ","?">>
sDots == <<"(",".",".",".",")">>
sObjectObject == <<"[","o","b","j","e","c","t"," ","O","b","j","e","c","t","]">>
sArray == <<"A","r","r","a","y">>
sYes == <<"Y","e","s">>
sNo == <<"N","o">>
sEq == <<"=","=">>
sEqq == <<"=","=","=">>
sNe == <<"!","=">>
sNee == <<"!","=","=">>
sGt == <<">">>
sGe == <<">","=">>
sLt == <<"<">>
sLe == <<"<","=">>
sMap == <<"m","a","p">>
sFilter == <<"f","i","l","t","e","r">>
sReduce == <<"r","e","d","u","c","e">>
sAll == <<"a","l","l">>
sSome == <<"s","o","m","e">>
sNone == <<"n","o","n","e">>

ComparisonOps == {sEq, sEqq, sNe, sNee, sGt, sGe, sLt, sLe}
ArithmeticOps == {<<"+">>, <<"-">>, <<"*">>, <<"/">>, <<"%">>}
ArrayOps == {sMap, sFilter, sReduce, sAll, sSome, sNone}

\* opNames table of buildLabel
opNames(op) ==
  CASE op = sMap -> <<"M","A","P">>
    [] op = sFilter -> <<"F","I","L","T","E","R">>
    [] op = sReduce -> <<"R","E","D","U","C","E">>
    [] op = sAll -> <<"A","L","L">>
    [] op = sSome -> <<"S","O","M","E">>
    [] op = sNone -> <<"N","O","N","E">>

Digit(d) == <<"0","1","2","3","4","5","6","7","8","9">>[d + 1]

RECURSIVE NatStr(_)
NatStr(n) == IF n < 10 THEN <<Digit(n)>> ELSE NatStr(n \div 10) \o <<Digit(n % 10)>>

\* String(n) for an integer n
NumStr(n) == IF n < 0 THEN <<"-">> \o NatStr(-n) ELSE NatStr(n)

\* Array.prototype.join
RECURSIVE Join(_, _)
Join(strs, sep) ==
  IF Len(strs) = 0 THEN <<>>
  ELSE IF Len(strs) = 1 THEN strs[1]
  ELSE strs[1] \o sep \o Join(Tail(strs), sep)

\* String.prototype.slice(0, n)
SliceTo(s, n) == IF Len(s) <= n THEN s ELSE SubSeq(s, 1, n)

\* Array.prototype.slice(from)
SliceFrom(s, from) == IF Len(s) <= from THEN <<>> ELSE SubSeq(s, from + 1, Len(s))

Quote(s) == <<"\"">> \o s \o <<"\"">>

(***************************************************************************)
(* Rule expressions: the values JSON.parse produces, plus undefined, which *)
(* indexing past the end of an operand list yields.                        *)
(***************************************************************************)
Null == [t |-> "null"]
Undefined == [t |-> "undefined"]
Bool(b) == [t |-> "bool", b |-> b]
Num(n) == [t |-> "num", n |-> n]
Str(s) == [t |-> "str", s |-> s]
List(items) == [t |-> "list", items |-> items]
\* an object is the ordered list of its keys with their values
Obj(keys) == [t |-> "obj", keys |-> keys]
Op(operator, operands) == Obj(<<[k |-> operator, v |-> operands]>>)
Var(path) == Op(sVar, Str(path))

\* operands[i] with JavaScript's 0-based indexing
At(items, i) == IF i < Len(items) THEN items[i + 1] ELSE Undefined

\* typeof v === 'object' && v !== null
IsObjectLike(v) == v.t \in {"list", "obj"}
IsArray(v) == v.t = "list"
\* Object.keys(v)[0], undefined (here the empty optional) when there is none
FirstKey(v) == IF Len(v.keys) = 0 THEN <<>> ELSE <<v.keys[1].k>>

\* String(v) / template-literal conversion of a JavaScript value
RECURSIVE String(_)
String(v) ==
  CASE v.t = "null" -> sNull
    [] v.t = "undefined" -> sUndefined
    [] v.t = "bool" -> IF v.b THEN sTrue ELSE sFalse
    [] v.t = "num" -> NumStr(v.n)
    [] v.t = "str" -> v.s
    [] v.t = "list" ->
         Join([i \in 1..Len(v.items) |->
                 IF v.items[i].t \in {"null", "undefined"} THEN <<>>
                 ELSE String(v.items[i])], <<",">>)
    [] v.t = "obj" -> sObjectObject

\* the escapes JSON.stringify applies inside a string
JsonEscapeChar(c) ==
  CASE c = "\"" -> <<"\\", "\"">>
    [] c = "\\" -> <<"\\", "\\">>
    [] c = "\n" -> <<"\\", "n">>
    [] OTHER -> <<c>>

RECURSIVE JsonEscape(_)
JsonEscape(s) == IF Len(s) = 0 THEN <<>> ELSE JsonEscapeChar(Head(s)) \o JsonEscape(Tail(s))

\* JSON.stringify(v)
RECURSIVE JSONstringify(_)
JSONstringify(v) ==
  CASE v.t = "null" -> sNull
    [] v.t = "undefined" -> sNull
    [] v.t = "bool" -> IF v.b THEN sTrue ELSE sFalse
    [] v.t = "num" -> NumStr(v.n)
    [] v.t = "str" -> Quote(JsonEscape(v.s))
    [] v.t = "list" ->
         <<"[">> \o Join([i \in 1..Len(v.items) |-> JSONstringify(v.items[i])], <<",">>) \o <<"]">>
    [] v.t = "obj" ->
         <<"{">> \o Join([i \in 1..Len(v.keys) |->
                           Quote(JsonEscape(v.keys[i].k)) \o <<":">> \o JSONstringify(v.keys[i].v)],
                         <<",">>) \o <<"}">>

\* the indentation of JSON.stringify(v, null, 2) at nesting level n
RECURSIVE Indent(_)
Indent(n) == IF n = 0 THEN <<>> ELSE <<" ", " ">> \o Indent(n - 1)

\* JSON.stringify(v, null, 2) of a value nested n levels deep; an undefined array item is
\* written null and an undefined property is left out
RECURSIVE JSONstringifyIndent(_, _)
JSONstringifyIndent(v, n) ==
  CASE v.t = "null" -> sNull
    [] v.t = "undefined" -> sNull
    [] v.t = "bool" -> IF v.b THEN sTrue ELSE sFalse
    [] v.t = "num" -> NumStr(v.n)
    [] v.t = "str" -> Quote(JsonEscape(v.s))
    [] v.t = "list" ->
         IF Len(v.items) = 0 THEN <<"[", "]">>
         ELSE <<"[", "\n">>
                \o Join([i \in 1..Len(v.items) |->
                           Indent(n + 1) \o JSONstringifyIndent(v.items[i], n + 1)],
                        <<",", "\n">>)
                \o <<"\n">> \o Indent(n) \o <<"]">>
    [] v.t = "obj" ->
         LET kept == SelectSeq(v.keys, LAMBDA e: e.v.t # "undefined") IN
         IF Len(kept) = 0 THEN <<"{", "}">>
         ELSE <<"{", "\n">>
                \o Join([i \in 1..Len(kept) |->
                           Indent(n + 1) \o Quote(JsonEscape(kept[i].k)) \o <<":", " ">>
                             \o JSONstringifyIndent(kept[i].v, n + 1)],
                        <<",", "\n">>)
                \o <<"\n">> \o Indent(n) \o <<"}">>

\* the truthiness of a JavaScript value
Truthy(v) ==
  CASE v.t \in {"null", "undefined"} -> FALSE
    [] v.t = "bool" -> v.b
    [] v.t = "num" -> v.n # 0
    [] v.t = "str" -> Len(v.s) > 0
    [] OTHER -> TRUE

\* `[${n} items]`
ItemsLabel(n) == <<"[">> \o NumStr(n) \o <<" ","i","t","e","m","s","]">>

(***************************************************************************)
(* Label formatter (lib/tree/parser buildLabel)                            *)
(***************************************************************************)
RECURSIVE buildLabel(_, _)
buildLabel(rule, compact) ==
  IF rule.t = "null" THEN sNull
  ELSE IF rule.t = "str" THEN Quote(rule.s)
  ELSE IF rule.t \in {"num", "bool"} THEN String(rule)
  ELSE IF rule.t = "list" THEN
    IF compact \/ Len(rule.items) > 3 THEN ItemsLabel(Len(rule.items))
    ELSE <<"[">> \o Join([i \in 1..Len(rule.items) |-> buildLabel(rule.items[i], TRUE)],
                         <<",", " ">>) \o <<"]">>
  ELSE IF rule.t # "obj" THEN String(rule)
  ELSE IF Len(rule.keys) = 0 THEN <<"{", "}">>
  ELSE
    LET operator == rule.keys[1].k
        operands == rule.keys[1].v
        mapped == [i \in 1..Len(operands.items) |-> buildLabel(operands.items[i], TRUE)]
    IN
    IF operator = sVar THEN
      IF operands.t = "str" THEN (IF operands.s = <<>> THEN sItem ELSE Quote(operands.s))
      ELSE IF IsArray(operands) THEN
        (IF At(operands.items, 0) = Str(<<>>) THEN sItem
         ELSE Quote(String(At(operands.items, 0))))
      ELSE sData
    ELSE IF operator \in ComparisonOps /\ IsArray(operands) /\ Len(operands.items) >= 2 THEN
      buildLabel(operands.items[1], TRUE) \o <<" ">> \o operator \o <<" ">>
        \o buildLabel(operands.items[2], TRUE)
    ELSE IF operator = sAnd /\ IsArray(operands) THEN Join(mapped, <<" ","A","N","D"," ">>)
    ELSE IF operator = sOr /\ IsArray(operands) THEN Join(mapped, <<" ","O","R"," ">>)
    ELSE IF operator \in {sNot, sNotNot} THEN
      LET inner == IF IsArray(operands) THEN At(operands.items, 0) ELSE operands IN
      (IF operator = sNot THEN <<"N","O","T"," ">> ELSE <<"B","O","O","L"," ">>)
        \o buildLabel(inner, TRUE)
    ELSE IF operator = sIn /\ IsArray(operands) /\ Len(operands.items) >= 2 THEN
      LET haystack == operands.items[2] IN
      buildLabel(operands.items[1], TRUE) \o <<" ","i","n"," ">>
        \o (IF IsArray(haystack) THEN ItemsLabel(Len(haystack.items))
            ELSE buildLabel(haystack, TRUE))
    ELSE IF operator \in ArithmeticOps /\ IsArray(operands) THEN
      Join(mapped, <<" ">> \o operator \o <<" ">>)
    ELSE IF operator \in ArrayOps THEN opNames(operator) \o sDots
    ELSE operator \o sDots

(***************************************************************************)
(* Tree builder (lib/tree/parser)                                          *)
(*                                                                         *)
(* The module-level nodeIdCounter is threaded through the builder: every   *)
(* function takes the counter and returns the node with the new counter.   *)
(* `stack` is the number of call-stack frames left; a call made with none  *)
(* left throws (RangeError), and the exception propagates to the caller.   *)
(***************************************************************************)
Ok(node, ctr) == [ok |-> TRUE, node |-> node, ctr |-> ctr]
Thrown(ctr) == [ok |-> FALSE, ctr |-> ctr]

\* `node-${n}`
NodeId(n) == <<"n","o","d","e","-">> \o NumStr(n)

\* an id generator that hands out the id without advancing the counter
generateNodeIdStuck(ctr) == [id |-> NodeId(ctr + 1), ctr |-> ctr]

generateNodeId(ctr) == [id |-> NodeId(ctr + 1), ctr |-> ctr + 1]

\* `[${index}]`
IndexSeg(index) == <<"[">> \o NumStr(index) \o <<"]">>

\* a TreeNode object literal as the builder writes it: no layout fields yet
TreeNode(id, type, label, operator, value, children, parent, depth, path, expanded) ==
  [id |-> id, type |-> type, label |-> label, operator |-> operator, value |-> value,
   children |-> children, parent |-> parent, depth |-> depth, path |-> path,
   expanded |-> expanded, highlighted |-> FALSE, selected |-> FALSE,
   x |-> <<>>, y |-> <<>>, width |-> <<>>, height |-> <<>>, subtreeWidth |-> <<>>]

createValueNode(label, value, parentId, depth, path, ctr) ==
  LET g == generateNodeId(ctr) IN
  Ok(TreeNode(g.id, "value", label, <<>>, value, <<>>, parentId, depth, path, TRUE), g.ctr)

createVariableNode(operands, parentId, depth, path, ctr) ==
  LET varName ==
        IF operands.t = "str" THEN (IF operands.s = <<>> THEN sData ELSE operands.s)
        ELSE IF operands.t = "num" THEN String(operands)
        ELSE IF IsArray(operands) THEN
          (IF String(At(operands.items, 0)) = <<>> THEN sData
           ELSE String(At(operands.items, 0)))
        ELSE sData
      defaultValue == IF IsArray(operands) THEN At(operands.items, 1) ELSE Undefined
      displayLabel == IF varName = <<>> THEN sCurrentItem ELSE <<"$">> \o varName
      g == generateNodeId(ctr)
      node == TreeNode(g.id, "variable", displayLabel, <<>>, Op(sVar, operands), <<>>,
                       parentId, depth, path, TRUE)
  IN
  IF defaultValue # Undefined THEN
    LET d == createValueNode(<<"d","e","f","a","u","l","t",":"," ">> \o JSONstringify(defaultValue),
                             defaultValue, <<g.id>>, depth + 1,
                             path \o <<sVar, IndexSeg(1)>>, g.ctr)
    IN Ok([node EXCEPT !.children = <<d.node>>], d.ctr)
  ELSE Ok(node, g.ctr)

isSimpleValue(rule) ==
  IF ~IsObjectLike(rule) THEN TRUE
  ELSE IF IsArray(rule) THEN FALSE
  ELSE Len(rule.keys) = 1 /\ rule.keys[1].k = sVar

\* the filter predicate of the generic-operator branch
IsComplexOperand(op) == IsObjectLike(op) /\ ~isSimpleValue(op)

\* a counter that is never restarted
startCounterKept(depth, ctr) == ctr

\* nodeIdCounter = depth === 0 ? 0 : nodeIdCounter
startCounter(depth, ctr) == IF depth = 0 THEN 0 ELSE ctr

RECURSIVE parseRuleToTree(_, _, _, _, _, _)
RECURSIVE parseChildren(_, _, _, _, _, _, _)
RECURSIVE createIfNode(_, _, _, _, _, _, _)
RECURSIVE createChainedIfNode(_, _, _, _, _, _, _)
RECURSIVE createResultNode(_, _, _, _, _, _, _)

\* a result node carrying the marker of the other branch
createResultNodeSwapped(result, parentId, depth, path, isTrueBranch, ctr, stack) ==
  IF stack = 0 THEN Thrown(ctr)
  ELSE IF result.t = "obj" /\ FirstKey(result) # <<sVar>> THEN
    parseRuleToTree(result, parentId, depth, path, ctr, stack - 1)
  ELSE
    LET label == IF result.t = "null" THEN sNull
                 ELSE IF ~IsObjectLike(result) THEN
                   (IF result.t = "str" THEN Quote(result.s) ELSE String(result))
                 ELSE IF ~IsArray(result) THEN buildLabel(result, FALSE)
                 ELSE ItemsLabel(Len(result.items))
        nodeType == IF result.t = "obj" THEN "variable"
                    ELSE IF result.t = "list" THEN "array" ELSE "value"
        g == generateNodeId(ctr)
    IN Ok(TreeNode(g.id, nodeType, label,
                   <<IF isTrueBranch THEN <<"f","a","l","s","e","_","b","r","a","n","c","h">>
                     ELSE <<"t","r","u","e","_","b","r","a","n","c","h">>>>,
                   result, <<>>, parentId, depth, path, TRUE), g.ctr)

\* items.map((item, index) => parseRuleToTree(item, parentId, depth, [...prefix, `[${index}]`]))
parseChildren(items, index, parentId, depth, prefix, ctr, stack) ==
  IF index >= Len(items) THEN [ok |-> TRUE, nodes |-> <<>>, ctr |-> ctr]
  ELSE
    LET r == parseRuleToTree(items[index + 1], parentId, depth,
                             prefix \o <<IndexSeg(index)>>, ctr, stack)
    IN
    IF ~r.ok THEN [ok |-> FALSE, ctr |-> r.ctr]
    ELSE
      LET rest == parseChildren(items, index + 1, parentId, depth, prefix, r.ctr, stack) IN
      IF ~rest.ok THEN rest
      ELSE [ok |-> TRUE, nodes |-> <<r.node>> \o rest.nodes, ctr |-> rest.ctr]

parseRuleToTree(rule, parentId, depth, path, ctrIn, stack) ==
  LET ctr == startCounter(depth, ctrIn) IN
  IF stack = 0 THEN Thrown(ctr)
  ELSE IF rule.t = "null" THEN createValueNode(sNull, Null, parentId, depth, path, ctr)
  ELSE IF rule.t = "str" THEN createValueNode(Quote(rule.s), rule, parentId, depth, path, ctr)
  ELSE IF rule.t \in {"num", "bool"} THEN
    createValueNode(String(rule), rule, parentId, depth, path, ctr)
  ELSE IF rule.t = "list" THEN
    LET g == generateNodeId(ctr)
        node == TreeNode(g.id, "array", ItemsLabel(Len(rule.items)), <<>>, rule, <<>>,
                         parentId, depth, path, depth < 3)
        kids == parseChildren(rule.items, 0, <<g.id>>, depth + 1, path, g.ctr, stack - 1)
    IN IF ~kids.ok THEN Thrown(kids.ctr)
       ELSE Ok([node EXCEPT !.children = kids.nodes], kids.ctr)
  ELSE IF rule.t # "obj" THEN Thrown(ctr) \* Object.keys(undefined) is a TypeError
  ELSE IF Len(rule.keys) = 0 THEN
    createValueNode(<<"{", "}">>, rule, parentId, depth, path, ctr)
  ELSE
    LET operator == rule.keys[1].k
        operands == rule.keys[1].v
    IN
    IF operator = sVar THEN createVariableNode(operands, parentId, depth, path, ctr)
    ELSE IF operator \in {sIf, sTernary} /\ IsArray(operands) THEN
      createIfNode(operands.items, parentId, depth, path, rule, ctr, stack - 1)
    ELSE
      LET g == generateNodeId(ctr)
          node == TreeNode(g.id, "operator", buildLabel(rule, FALSE), <<operator>>, rule, <<>>,
                           parentId, depth, path, depth < 4)
      IN
      IF IsArray(operands) THEN
        LET complex == SelectSeq(operands.items, IsComplexOperand)
            kids == parseChildren(complex, 0, <<g.id>>, depth + 1, path \o <<operator>>,
                                  g.ctr, stack - 1)
        IN IF ~kids.ok THEN Thrown(kids.ctr)
           ELSE Ok([node EXCEPT !.children = kids.nodes], kids.ctr)
      ELSE IF IsObjectLike(operands) THEN
        LET kid == parseRuleToTree(operands, <<g.id>>, depth + 1, path \o <<operator>>,
                                   g.ctr, stack - 1)
        IN IF ~kid.ok THEN kid ELSE Ok([node EXCEPT !.children = <<kid.node>>], kid.ctr)
      ELSE Ok(node, g.ctr)

createIfNode(operands, parentId, depth, path, rule, ctr, stack) ==
  IF stack = 0 THEN Thrown(ctr)
  ELSE IF Len(operands) < 2 THEN createValueNode(sIfPlaceholder, rule, parentId, depth, path, ctr)
  ELSE IF Len(operands) > 3 THEN
    createChainedIfNode(operands, parentId, depth, path, rule, ctr, stack - 1)
  ELSE
    LET g == generateNodeId(ctr)
        node == TreeNode(g.id, "operator", buildLabel(operands[1], FALSE), <<sIf>>, rule, <<>>,
                         parentId, depth, path, TRUE)
        trueNode == createResultNode(operands[2], <<g.id>>, depth + 1, path \o <<sThen>>,
                                     TRUE, g.ctr, stack - 1)
    IN
    IF ~trueNode.ok THEN trueNode
    ELSE IF Len(operands) > 2 THEN
      LET elseResult == operands[3]
          isNestedIf == /\ IsObjectLike(elseResult) /\ ~IsArray(elseResult)
                        /\ FirstKey(elseResult) \in {<<sIf>>, <<sTernary>>}
          second == IF isNestedIf
                    THEN parseRuleToTree(elseResult, <<g.id>>, depth + 1, path \o <<sElse>>,
                                         trueNode.ctr, stack - 1)
                    ELSE createResultNode(elseResult, <<g.id>>, depth + 1, path \o <<sElse>>,
                                          FALSE, trueNode.ctr, stack - 1)
      IN IF ~second.ok THEN second
         ELSE Ok([node EXCEPT !.children = <<trueNode.node, second.node>>], second.ctr)
    ELSE Ok([node EXCEPT !.children = <<trueNode.node>>], trueNode.ctr)

createChainedIfNode(operands, parentId, depth, path, rule, ctr, stack) ==
  IF stack = 0 THEN Thrown(ctr)
  ELSE
    LET g == generateNodeId(ctr)
        node == TreeNode(g.id, "operator", buildLabel(At(operands, 0), FALSE), <<sIf>>, rule,
                         <<>>, parentId, depth, path, TRUE)
        trueNode == createResultNode(At(operands, 1), <<g.id>>, depth + 1, path \o <<sThen>>,
                                     TRUE, g.ctr, stack - 1)
        remainingOperands == SliceFrom(operands, 2)
    IN
    IF ~trueNode.ok THEN trueNode
    ELSE
      LET second == IF Len(remainingOperands) = 1
                    THEN createResultNode(remainingOperands[1], <<g.id>>, depth + 1,
                                          path \o <<sElse>>, FALSE, trueNode.ctr, stack - 1)
                    ELSE createChainedIfNode(remainingOperands, <<g.id>>, depth + 1,
                                             path \o <<sElse>>, rule, trueNode.ctr, stack - 1)
      IN IF ~second.ok THEN second
         ELSE Ok([node EXCEPT !.children = <<trueNode.node, second.node>>], second.ctr)

createResultNode(result, parentId, depth, path, isTrueBranch, ctr, stack) ==
  IF stack = 0 THEN Thrown(ctr)
  ELSE IF result.t = "obj" /\ FirstKey(result) # <<sVar>> THEN
    parseRuleToTree(result, parentId, depth, path, ctr, stack - 1)
  ELSE
    LET label == IF result.t = "null" THEN sNull
                 ELSE IF ~IsObjectLike(result) THEN
                   (IF result.t = "str" THEN Quote(result.s) ELSE String(result))
                 ELSE IF ~IsArray(result) THEN buildLabel(result, FALSE)
                 ELSE ItemsLabel(Len(result.items))
        nodeType == IF result.t = "obj" THEN "variable"
                    ELSE IF result.t = "list" THEN "array" ELSE "value"
        g == generateNodeId(ctr)
    IN Ok(TreeNode(g.id, nodeType, label,
                   <<IF isTrueBranch THEN <<"t","r","u","e","_","b","r","a","n","c","h">>
                     ELSE <<"f","a","l","s","e","_","b","r","a","n","c","h">>>>,
                   result, <<>>, parentId, depth, path, TRUE), g.ctr)

(***************************************************************************)
(* Expansion operations (lib/tree/parser).  They take the heap and the     *)
(* reference of the tree object and return the new heap with the reference *)
(* of the returned object.                                                 *)
(***************************************************************************)
\* JSON round trip of a rule fragment: undefined inside an array becomes null
RECURSIVE JsonValue(_)
JsonValue(v) ==
  CASE v.t = "list" ->
         List([i \in 1..Len(v.items) |->
                 IF v.items[i].t = "undefined" THEN Null ELSE JsonValue(v.items[i])])
    [] v.t = "obj" ->
         Obj(SelectSeq([i \in 1..Len(v.keys) |-> [k |-> v.keys[i].k, v |-> JsonValue(v.keys[i].v)]],
                       LAMBDA e: e.v.t # "undefined"))
    [] OTHER -> v

\* JSON.parse(JSON.stringify(node)): a deep copy, property by property;
\* properties holding undefined are dropped and read back as undefined
RECURSIVE JsonClone(_)
JsonClone(node) ==
  [id |-> node.id, type |-> node.type, label |-> node.label, operator |-> node.operator,
   value |-> JsonValue(node.value),
   children |-> [i \in 1..Len(node.children) |-> JsonClone(node.children[i])],
   parent |-> node.parent, depth |-> node.depth, path |-> node.path,
   expanded |-> node.expanded, highlighted |-> node.highlighted, selected |-> node.selected,
   x |-> node.x, y |-> node.y, width |-> node.width, height |-> node.height,
   subtreeWidth |-> node.subtreeWidth]

\* flattenTree: the nodes in pre-order, each as its position (child indexes from the root)
RECURSIVE flattenTree(_, _)
flattenTree(node, pos) ==
  LET RECURSIVE kids(_)
      kids(i) == IF i > Len(node.children) THEN <<>>
                 ELSE flattenTree(node.children[i], pos \o <<i>>) \o kids(i + 1)
  IN <<pos>> \o kids(1)

\* the node object at a position
RECURSIVE NodeAt(_, _)
NodeAt(node, pos) == IF pos = <<>> THEN node ELSE NodeAt(node.children[Head(pos)], Tail(pos))

\* assignment node.expanded = val on the node object at a position
RECURSIVE SetExpanded(_, _, _)
SetExpanded(node, pos, val) ==
  IF pos = <<>> THEN [node EXCEPT !.expanded = val]
  ELSE [node EXCEPT !.children[Head(pos)] = SetExpanded(@, Tail(pos), val)]

\* findNodeById: the first node in pre-order with that id, null (<<>>) when there is none
RECURSIVE findNodeById(_, _, _)
findNodeById(root, pos, id) ==
  IF root.id = id THEN <<pos>>
  ELSE
    LET RECURSIVE search(_)
        search(i) ==
          IF i > Len(root.children) THEN <<>>
          ELSE LET found == findNodeById(root.children[i], pos \o <<i>>, id)
               IN IF found # <<>> THEN found ELSE search(i + 1)
    IN search(1)

\* toggling the node of the caller's tree, without the copy
toggleInPlace(h, root, nodeId) ==
  LET node == findNodeById(h[root], <<>>, nodeId)
      out == IF node # <<>>
             THEN SetExpanded(h[root], node[1], ~NodeAt(h[root], node[1]).expanded)
             ELSE h[root]
  IN [heap |-> [h EXCEPT ![root] = out], ret |-> root]

\* collapsing the node instead of flipping its flag
toggleCollapses(h, root, nodeId) ==
  LET clone == JsonClone(h[root])
      node == findNodeById(clone, <<>>, nodeId)
      out == IF node # <<>> THEN SetExpanded(clone, node[1], FALSE) ELSE clone
  IN [heap |-> Append(h, out), ret |-> Len(h) + 1]

\* flipping the node and giving its children the node's new flag
toggleWithChildren(h, root, nodeId) ==
  LET clone == JsonClone(h[root])
      node == findNodeById(clone, <<>>, nodeId)
      val == ~NodeAt(clone, node[1]).expanded
      kids == [i \in 1..Len(NodeAt(clone, node[1]).children) |-> node[1] \o <<i>>]
      RECURSIVE setAll(_, _)
      setAll(n, ps) == IF ps = <<>> THEN n ELSE setAll(SetExpanded(n, Head(ps), val), Tail(ps))
      out == IF node # <<>> THEN setAll(clone, <<node[1]>> \o kids) ELSE clone
  IN [heap |-> Append(h, out), ret |-> Len(h) + 1]

toggleNodeExpansion(h, root, nodeId) ==
  LET clone == JsonClone(h[root])
      node == findNodeById(clone, <<>>, nodeId)
      out == IF node # <<>>
             THEN SetExpanded(clone, node[1], ~NodeAt(clone, node[1]).expanded)
             ELSE clone
  IN [heap |-> Append(h, out), ret |-> Len(h) + 1]

\* nodes.forEach(node => node.expanded = val) over a list of positions
RECURSIVE SetExpandedAll(_, _, _)
SetExpandedAll(node, positions, val) ==
  IF positions = <<>> THEN node
  ELSE SetExpandedAll(SetExpanded(node, Head(positions), val), Tail(positions), val)

expandAllNodes(h, root) ==
  LET clone == JsonClone(h[root])
      nodes == flattenTree(clone, <<>>)
  IN [heap |-> Append(h, SetExpandedAll(clone, nodes, TRUE)), ret |-> Len(h) + 1]

collapseAllNodes(h, root) ==
  LET clone == [JsonClone(h[root]) EXCEPT !.expanded = TRUE]
      nodes == flattenTree(clone, <<>>)
  IN [heap |-> Append(h, SetExpandedAll(clone, SliceFrom(nodes, 1), FALSE)), ret |-> Len(h) + 1]

(***************************************************************************)
(* Layout engine (lib/tree/layout).  The passes write into the node        *)
(* objects; each pass is modelled as the tree it leaves behind.            *)
(***************************************************************************)
DEFAULT_CONFIG ==
  [nodeWidth |-> 180, nodeHeight |-> 44, horizontalSpacing |-> 24, verticalSpacing |-> 50,
   orientation |-> "vertical"]

CHAR_WIDTH == 8
MIN_NODE_WIDTH == 120
MAX_NODE_WIDTH == 400
NODE_PADDING == 60

Min2(a, b) == IF a <= b THEN a ELSE b
Max2(a, b) == IF a >= b THEN a ELSE b

\* a || b on an optional number: undefined and 0 are falsy
OrElse(opt, default) == IF opt = <<>> \/ opt = <<0>> THEN default ELSE opt[1]

\* n / 2.  Every width and spacing is a multiple of 4 and nodeHeight + nodeHeight +
\* verticalSpacing is even, so each division by two in the layout is exact.
Half(n) == n \div 2

calculateNodeWidth(label) ==
  Min2(Max2(Len(label) * CHAR_WIDTH + NODE_PADDING, MIN_NODE_WIDTH), MAX_NODE_WIDTH)

RECURSIVE assignNodeWidths(_)
assignNodeWidths(node) ==
  [node EXCEPT !.width = <<calculateNodeWidth(node.label)>>,
               !.height = <<DEFAULT_CONFIG.nodeHeight>>,
               !.children = [i \in 1..Len(node.children) |-> assignNodeWidths(node.children[i])]]

\* sum of subtreeWidth + horizontalSpacing over the children, from -horizontalSpacing
RECURSIVE SumSubtreeWidths(_, _)
SumSubtreeWidths(children, config) ==
  IF children = <<>> THEN -config.horizontalSpacing
  ELSE SumSubtreeWidths(SubSeq(children, 1, Len(children) - 1), config)
         + children[Len(children)].subtreeWidth[1] + config.horizontalSpacing

\* a subtree width that ignores the children
RECURSIVE subtreeWidthsOwnOnly(_, _)
subtreeWidthsOwnOnly(node, config) ==
  LET nodeWidth == OrElse(node.width, config.nodeWidth) IN
  IF ~node.expanded \/ Len(node.children) = 0 THEN [node EXCEPT !.subtreeWidth = <<nodeWidth>>]
  ELSE [node EXCEPT !.children = [i \in 1..Len(node.children) |->
                                    subtreeWidthsOwnOnly(node.children[i], config)],
                    !.subtreeWidth = <<nodeWidth>>]

\* a subtree width that is kept once a pass has written it
RECURSIVE subtreeWidthsCached(_, _)
subtreeWidthsCached(node, config) ==
  LET nodeWidth == OrElse(node.width, config.nodeWidth) IN
  IF node.subtreeWidth # <<>> THEN node
  ELSE IF ~node.expanded \/ Len(node.children) = 0
  THEN [node EXCEPT !.subtreeWidth = <<nodeWidth>>]
  ELSE
    LET kids == [i \in 1..Len(node.children) |-> subtreeWidthsCached(node.children[i], config)]
    IN [node EXCEPT !.children = kids,
                    !.subtreeWidth = <<Max2(nodeWidth, SumSubtreeWidths(kids, config))>>]

RECURSIVE calculateSubtreeWidths(_, _)
calculateSubtreeWidths(node, config) ==
  LET nodeWidth == OrElse(node.width, config.nodeWidth) IN
  IF ~node.expanded \/ Len(node.children) = 0 THEN [node EXCEPT !.subtreeWidth = <<nodeWidth>>]
  ELSE
    LET kids == [i \in 1..Len(node.children) |-> calculateSubtreeWidths(node.children[i], config)]
        childrenWidth == SumSubtreeWidths(kids, config)
    IN [node EXCEPT !.children = kids, !.subtreeWidth = <<Max2(nodeWidth, childrenWidth)>>]

\* a vertical pass that puts every node at the left edge of its subtree's span
RECURSIVE assignVerticalPositionsFlush(_, _, _, _)
assignVerticalPositionsFlush(node, x, y, config) ==
  LET placed == [node EXCEPT !.x = <<x>>, !.y = <<y>>, !.height = <<config.nodeHeight>>]
      childY == y + config.nodeHeight + config.verticalSpacing
      RECURSIVE loop(_, _)
      loop(i, childX) ==
        IF i > Len(node.children) THEN <<>>
        ELSE
          LET childNode == node.children[i]
              childWidth == OrElse(childNode.subtreeWidth, OrElse(childNode.width, config.nodeWidth))
          IN <<assignVerticalPositionsFlush(childNode, childX, childY, config)>>
               \o loop(i + 1, childX + childWidth + config.horizontalSpacing)
  IN
  IF ~node.expanded \/ Len(node.children) = 0 THEN placed
  ELSE [placed EXCEPT !.children = loop(1, x)]

RECURSIVE assignVerticalPositions(_, _, _, _)
assignVerticalPositions(node, x, y, config) ==
  LET nodeWidth == OrElse(node.width, config.nodeWidth)
      subtreeWidth == OrElse(node.subtreeWidth, nodeWidth)
      placed == [node EXCEPT !.x = <<x + Half(subtreeWidth - nodeWidth)>>, !.y = <<y>>,
                             !.height = <<config.nodeHeight>>]
      childY == y + config.nodeHeight + config.verticalSpacing
      RECURSIVE loop(_, _)
      loop(i, childX) ==
        IF i > Len(node.children) THEN <<>>
        ELSE
          LET childNode == node.children[i]
              childWidth == OrElse(childNode.subtreeWidth, OrElse(childNode.width, config.nodeWidth))
          IN <<assignVerticalPositions(childNode, childX, childY, config)>>
               \o loop(i + 1, childX + childWidth + config.horizontalSpacing)
  IN
  IF ~node.expanded \/ Len(node.children) = 0 THEN placed
  ELSE [placed EXCEPT !.children = loop(1, x)]

RECURSIVE assignHorizontalPositions(_, _, _, _)
assignHorizontalPositions(node, x, y, config) ==
  LET nodeWidth == OrElse(node.width, config.nodeWidth)
      subtreeWidth == OrElse(node.subtreeWidth, config.nodeHeight)
      placed == [node EXCEPT !.x = <<x>>, !.y = <<y + Half(subtreeWidth - config.nodeHeight)>>,
                             !.height = <<config.nodeHeight>>]
      childX == x + nodeWidth + config.horizontalSpacing
      RECURSIVE loop(_, _)
      loop(i, childY) ==
        IF i > Len(node.children) THEN <<>>
        ELSE
          LET childNode == node.children[i]
              childHeight == OrElse(childNode.subtreeWidth, config.nodeHeight)
          IN <<assignHorizontalPositions(childNode, childX, childY, config)>>
               \o loop(i + 1, childY + childHeight + config.verticalSpacing)
  IN
  IF ~node.expanded \/ Len(node.children) = 0 THEN placed
  ELSE [placed EXCEPT !.children = loop(1, y)]

\* collecting the children of a node whatever its expanded flag
RECURSIVE collectNodesAll(_)
collectNodesAll(node) ==
  LET RECURSIVE kids(_)
      kids(i) == IF i > Len(node.children) THEN <<>>
                 ELSE collectNodesAll(node.children[i]) \o kids(i + 1)
  IN <<node>> \o kids(1)

RECURSIVE collectNodes(_)
collectNodes(node) ==
  LET RECURSIVE kids(_)
      kids(i) == IF i > Len(node.children) THEN <<>>
                 ELSE collectNodes(node.children[i]) \o kids(i + 1)
  IN IF node.expanded THEN <<node>> \o kids(1) ELSE <<node>>

createEdge(parent, child, config) ==
  LET parentWidth == OrElse(parent.width, config.nodeWidth)
      childWidth == OrElse(child.width, config.nodeWidth)
      px == OrElse(parent.x, 0) + Half(parentWidth)
      py == OrElse(parent.y, 0) + config.nodeHeight
      cx == OrElse(child.x, 0) + Half(childWidth)
      cy == OrElse(child.y, 0)
      midY == Half(py + cy)
      sp == <<" ">>
      path == IF config.orientation = "vertical"
              THEN <<"M", " ">> \o NumStr(px) \o sp \o NumStr(py) \o <<" ", "C", " ">>
                     \o NumStr(px) \o sp \o NumStr(midY) \o <<",", " ">>
                     \o NumStr(cx) \o sp \o NumStr(midY) \o <<",", " ">>
                     \o NumStr(cx) \o sp \o NumStr(cy)
              ELSE <<"M", " ">> \o NumStr(py) \o sp \o NumStr(px) \o <<" ", "C", " ">>
                     \o NumStr(midY) \o sp \o NumStr(px) \o <<",", " ">>
                     \o NumStr(midY) \o sp \o NumStr(cx) \o <<",", " ">>
                     \o NumStr(cy) \o sp \o NumStr(cx)
  IN [id |-> <<"e","d","g","e","-">> \o parent.id \o <<"-">> \o child.id,
      source |-> parent.id, target |-> child.id, path |-> path]

\* createEdges: traverse(node) pushes, per child, the edge and then the child's edges
RECURSIVE createEdges(_, _)
createEdges(node, config) ==
  LET RECURSIVE kids(_)
      kids(i) == IF i > Len(node.children) THEN <<>>
                 ELSE <<createEdge(node, node.children[i], config)>>
                        \o createEdges(node.children[i], config) \o kids(i + 1)
  IN IF ~node.expanded THEN <<>> ELSE kids(1)

RECURSIVE calculateDimensions(_, _, _)
calculateDimensions(nodes, maxX, maxY) ==
  IF nodes = <<>>
  THEN [width |-> maxX + DEFAULT_CONFIG.horizontalSpacing,
        height |-> maxY + DEFAULT_CONFIG.verticalSpacing]
  ELSE LET node == Head(nodes) IN
       calculateDimensions(Tail(nodes),
                           Max2(maxX, OrElse(node.x, 0) + OrElse(node.width, 180)),
                           Max2(maxY, OrElse(node.y, 0) + OrElse(node.height, 44)))

\* calculateTreeLayout on the tree object h[root]: the heap after the passes have
\* written into the object, and the TreeLayout returned
calculateTreeLayout(h, root, config) ==
  LET cfg == config
      sized == assignNodeWidths(h[root])
      measured == calculateSubtreeWidths(sized, cfg)
      positioned == IF cfg.orientation = "vertical"
                    THEN assignVerticalPositions(measured, 0, 0, cfg)
                    ELSE assignHorizontalPositions(measured, 0, 0, cfg)
      nodes == collectNodes(positioned)
      edges == createEdges(positioned, cfg)
      dims == calculateDimensions(nodes, 0, 0)
  IN [heap |-> [h EXCEPT ![root] = positioned],
      ret |-> [nodes |-> nodes, edges |-> edges, width |-> dims.width, height |-> dims.height]]

(***************************************************************************)
(* Zoom factors are fractions num/den in lowest terms with den > 0: the    *)
(* quotients of the code, taken exactly.                                   *)
(***************************************************************************)
Abs(n) == IF n < 0 THEN 0 - n ELSE n

RECURSIVE Gcd(_, _)
Gcd(a, b) == IF b = 0 THEN a ELSE Gcd(b, a % b)

\* n / d for d > 0
Frac(n, d) == LET g == Gcd(Abs(n), d) IN [num |-> n \div g, den |-> d \div g]

FracLeq(a, b) == a.num * b.den <= b.num * a.den

\* Math.min(a, b)
FracMin(a, b) == IF FracLeq(a, b) THEN a ELSE b

\* a fit zoom that is not capped
fitZoomUncapped(layout, viewportWidth, viewportHeight, padding) ==
  FracMin(Frac(viewportWidth - padding * 2, layout.width),
          Frac(viewportHeight - padding * 2, layout.height))

calculateFitZoom(layout, viewportWidth, viewportHeight, padding) ==
  FracMin(FracMin(Frac(viewportWidth - padding * 2, layout.width),
                  Frac(viewportHeight - padding * 2, layout.height)),
          Frac(1, 1))

(***************************************************************************)
(* Mermaid flowchart emitter (lib/mermaid/converter).                      *)
(*                                                                         *)
(* The `lines` and `connections` arrays and the module-level nodeCounter   *)
(* are threaded through the emitter as the record st.  A pushed line is    *)
(* kept as its parts: for a node declaration the id, the text before the   *)
(* interpolated label, the interpolated label, and the text after it.      *)
(* st.cur and st.of are history: the rule processNode or processResultNode *)
(* was last entered with, and for each id generated the rule it was        *)
(* generated for.  They are not part of the text.                          *)
(***************************************************************************)
\* U+2713 and U+2717, one character each
cCheck == "U+2713"
cCross == "U+2717"

NodeLine(id, open, label, close) ==
  [kind |-> "node", id |-> id, open |-> open, label |-> label, close |-> close]
ClassLine(id, class) == [kind |-> "class", id |-> id, class |-> class]
TextLine(text) == [kind |-> "text", text |-> text]
\* `    ${from} --> ${to}` and `    ${from} -->|"label"| ${to}`
EdgeLine(from, to, label) == [kind |-> "edge", from |-> from, to |-> to, label |-> label]

\* the characters of one pushed line
LineText(l) ==
  LET indent == <<" ", " ", " ", " ">> IN
  CASE l.kind = "text" -> l.text
    [] l.kind = "node" -> indent \o l.id \o l.open \o l.label \o l.close
    [] l.kind = "class" -> indent \o <<"c","l","a","s","s"," ">> \o l.id \o <<" ">> \o l.class
    [] l.kind = "edge" ->
         indent \o l.from \o <<" ", "-", "-", ">">>
           \o (IF l.label = <<>> THEN <<>> ELSE <<"|", "\"">> \o l.label \o <<"\"", "|">>)
           \o <<" ">> \o l.to

\* a counter that is not restarted by a call
startNodeCounterKept(ctr) == ctr

\* nodeCounter = 0 at the start of toMermaidFlowchart
startNodeCounter(ctr) == 0

\* `n${++nodeCounter}`
generateMermaidNodeId(st) ==
  LET id == <<"n">> \o NumStr(st.ctr + 1) IN
  [id |-> id,
   st |-> [st EXCEPT !.ctr = st.ctr + 1, !.of = Append(st.of, [id |-> id, rule |-> st.cur])]]

\* history: processNode or processResultNode is entered with rule
Enter(st, rule) == [st EXCEPT !.cur = rule]

pushLine(st, line) == [st EXCEPT !.lines = Append(st.lines, line)]
pushConnection(st, line) == [st EXCEPT !.connections = Append(st.connections, line)]
\* if (parentId) connections.push(`    ${parentId} --> ${id}`)
pushParentEdge(st, parentId, id) ==
  IF parentId # <<>> /\ parentId[1] # <<>> THEN pushConnection(st, EdgeLine(parentId[1], id, <<>>))
  ELSE st

escapeChar(c) ==
  CASE c = "\"" -> <<"'">>
    [] c \in {"<", ">", "{", "}"} -> <<>>
    [] c = "\n" -> <<" ">>
    [] c = "|" -> <<"/">>
    [] OTHER -> <<c>>

RECURSIVE replaceAll(_)
replaceAll(text) == IF text = <<>> THEN <<>> ELSE escapeChar(Head(text)) \o replaceAll(Tail(text))

\* a label cut to 50 characters and otherwise left as it is
escapeLabelCutOnly(text) == SliceTo(text, 50)

\* the four single-character replacements commute, so they are applied in one pass
escapeLabel(text) == SliceTo(replaceAll(text), 50)

formatVarName(operands) ==
  IF operands.t = "str" THEN (IF operands.s = <<>> THEN sData ELSE operands.s)
  ELSE IF operands.t = "num" THEN String(operands)
  ELSE IF IsArray(operands) THEN
    (IF String(At(operands.items, 0)) = <<>> THEN sData ELSE String(At(operands.items, 0)))
  ELSE sData

formatOperand(operand) ==
  IF ~IsObjectLike(operand) THEN
    (IF operand.t = "str" THEN <<"'">> \o operand.s \o <<"'">> ELSE String(operand))
  ELSE IF IsArray(operand) THEN ItemsLabel(Len(operand.items))
  ELSE IF Len(operand.keys) = 0 THEN <<"{", "}">>
  ELSE IF operand.keys[1].k = sVar THEN formatVarName(operand.keys[1].v)
  ELSE operand.keys[1].k \o sDots

RECURSIVE buildConditionLabel(_)
buildConditionLabel(condition) ==
  IF ~IsObjectLike(condition) THEN String(condition)
  ELSE IF IsArray(condition) THEN JSONstringify(condition)
  ELSE IF Len(condition.keys) = 0 THEN <<"{", "}">>
  ELSE
    LET operator == condition.keys[1].k
        operands == condition.keys[1].v
        mapped == [i \in 1..Len(operands.items) |-> buildConditionLabel(operands.items[i])]
    IN
    IF operator \in ComparisonOps /\ IsArray(operands) /\ Len(operands.items) >= 2 THEN
      formatOperand(operands.items[1]) \o <<" ">> \o operator \o <<" ">>
        \o formatOperand(operands.items[2])
    ELSE IF operator = sIn /\ IsArray(operands) /\ Len(operands.items) >= 2 THEN
      formatOperand(operands.items[1]) \o <<" ", "i", "n", " ">> \o formatOperand(operands.items[2])
    ELSE IF operator = sAnd /\ IsArray(operands) THEN Join(mapped, <<" ","A","N","D"," ">>)
    ELSE IF operator = sOr /\ IsArray(operands) THEN Join(mapped, <<" ","O","R"," ">>)
    ELSE IF operator = sNot THEN
      <<"N","O","T"," ">>
        \o buildConditionLabel(IF IsArray(operands) THEN At(operands.items, 0) ELSE operands)
    ELSE operator \o sDots

\* lines.push of the declaration of the id just generated (g)
declare(g, open, label, close) ==
  [id |-> g.id, st |-> pushLine(g.st, NodeLine(g.id, open, label, close))]

\* lines.push(`    class ${id} ...`) for the node just declared (r)
withClass(r, class) == [id |-> r.id, st |-> pushLine(r.st, ClassLine(r.id, class))]

\* if (parentId) connections.push(...) for the node just declared (r)
withParentEdge(r, parentId) == [id |-> r.id, st |-> pushParentEdge(r.st, parentId, r.id)]

processVarNode(operands, parentId, st0) ==
  LET varName == IF operands.t = "str" THEN (IF operands.s = <<>> THEN sData ELSE operands.s)
                 ELSE IF operands.t = "num" THEN String(operands)
                 ELSE IF IsArray(operands) THEN
                   (IF String(At(operands.items, 0)) = <<>> THEN sData
                    ELSE String(At(operands.items, 0)))
                 ELSE sData
  IN withParentEdge(declare(generateMermaidNodeId(st0), <<"[", "/">>, escapeLabel(varName),
                            <<"/", "]">>), parentId)

RECURSIVE processNode(_, _, _, _)
RECURSIVE processEach(_, _, _, _, _)
RECURSIVE processIfNode(_, _, _, _)
RECURSIVE processResultNode(_, _, _)

RECURSIVE processEachBackwards(_, _, _, _, _)
\* the operands visited from the last to the first
processEachBackwards(items, i, id, st, includeValues) ==
  IF i > Len(items) THEN st
  ELSE processEachBackwards(items, i + 1, id,
         processNode(items[Len(items) + 1 - i], <<id>>, st, includeValues).st, includeValues)

\* items.forEach(op => processNode(op, id, lines, connections, includeValues)), from index i
processEach(items, i, id, st, includeValues) ==
  IF i > Len(items) THEN st
  ELSE processEach(items, i + 1, id, processNode(items[i], <<id>>, st, includeValues).st,
                   includeValues)

\* if (Array.isArray(operands)) operands.forEach(...) for the node just declared (r)
withOperands(r, operands, includeValues) ==
  [id |-> r.id,
   st |-> IF IsArray(operands) THEN processEach(operands.items, 1, r.id, r.st, includeValues)
          ELSE r.st]

\* the operands of a generic operator: each one of an array, or the single one unless null
withGenericOperands(r, operands, includeValues) ==
  [id |-> r.id,
   st |-> IF IsArray(operands) THEN processEach(operands.items, 1, r.id, r.st, includeValues)
          ELSE IF operands.t \notin {"null", "undefined"}
          THEN processNode(operands, <<r.id>>, r.st, includeValues).st
          ELSE r.st]

\* a new id, its declaration, then the edge from the parent
processLeaf(parentId, st0, open, label, close) ==
  withParentEdge(declare(generateMermaidNodeId(st0), open, label, close), parentId)

processComparisonNode(operator, operands, parentId, st0, includeValues) ==
  withOperands(processLeaf(parentId, st0, <<"{">>, escapeLabel(operator), <<"}">>),
               operands, includeValues)

processLogicalNode(operator, operands, parentId, st0, includeValues) ==
  withOperands(processLeaf(parentId, st0, <<"{", "{">>, operator, <<"}", "}">>),
               operands, includeValues)

processNode(rule, parentId, st, includeValues) ==
  LET st0 == Enter(st, rule) IN
  IF rule.t = "null" THEN processLeaf(parentId, st0, <<"(","[","n","u","l","l","]",")">>, <<>>, <<>>)
  ELSE IF rule.t = "str" THEN
    processLeaf(parentId, st0, <<"(", "[">>, escapeLabel(Quote(rule.s)), <<"]", ")">>)
  ELSE IF rule.t \in {"num", "bool"} THEN
    processLeaf(parentId, st0, <<"(", "[">>, String(rule), <<"]", ")">>)
  ELSE IF rule.t = "list" THEN
    withOperands(processLeaf(parentId, st0, <<"[", "[">> \o sArray \o <<"]", "]">>, <<>>, <<>>),
                 IF includeValues THEN rule ELSE Undefined, includeValues)
  ELSE IF Len(rule.keys) = 0 THEN
    processLeaf(parentId, st0, <<"(","[","{","}","]",")">>, <<>>, <<>>)
  ELSE
    LET operator == rule.keys[1].k
        operands == rule.keys[1].v
    IN
    IF operator = sVar THEN processVarNode(operands, parentId, st0)
    ELSE IF operator = sIf THEN processIfNode(operands, parentId, st0, includeValues)
    ELSE IF operator \in ComparisonOps THEN
      processComparisonNode(operator, operands, parentId, st0, includeValues)
    ELSE IF operator \in {sAnd, sOr} THEN
      processLogicalNode(operator, operands, parentId, st0, includeValues)
    ELSE
      withGenericOperands(
        processLeaf(parentId, st0, <<"{", "{">>, escapeLabel(operator), <<"}", "}">>),
        operands, includeValues)

\* edges of a decision that carry no text
branchLabelNone(isThen) == <<>>

\* the text on the edge to the then result and on the edge to the else result
branchLabel(isThen) == IF isThen THEN <<cCheck, " ">> \o sYes ELSE <<cCross, " ">> \o sNo

\* connections.push(`    ${id} -->|"..."| ${thenId}`) for the result node just emitted (res)
branchEdge(id, res, isThen) == pushConnection(res.st, EdgeLine(id, res.id, branchLabel(isThen)))

\* the branch of operand i of the decision id: skipped when operands[i] === undefined
processBranch(id, operands, i, st, includeValues) ==
  IF At(operands.items, i) # Undefined
  THEN branchEdge(id, processResultNode(At(operands.items, i), st, includeValues), i = 1)
  ELSE st

\* the then branch and after it the else branch of the decision just declared (d)
withBranches(d, operands, includeValues) ==
  [id |-> d.id,
   st |-> processBranch(d.id, operands, 2,
            processBranch(d.id, operands, 1, d.st, includeValues), includeValues)]

processIfNode(operands, parentId, st0, includeValues) ==
  IF ~IsArray(operands) \/ Len(operands.items) < 2 THEN
    withParentEdge(
      withClass(declare(generateMermaidNodeId(st0),
                        <<"{","{","\"","I","F"," ","?","\"","}","}">>, <<>>, <<>>),
                <<"c","o","n","d","i","t","i","o","n">>),
      parentId)
  ELSE
    withBranches(
      withParentEdge(
        withClass(declare(generateMermaidNodeId(st0), <<"{", "\"">>,
                          escapeLabel(buildConditionLabel(operands.items[1])), <<"\"", "}">>),
                  <<"c","o","n","d","i","t","i","o","n">>),
        parentId),
      operands, includeValues)

\* the label of a result that is neither a nested conditional nor a variable
resultLabel(rule) ==
  IF rule.t = "null" THEN sNull
  ELSE IF rule.t = "str" THEN Quote(escapeLabel(rule.s))
  ELSE IF rule.t \in {"num", "bool"} THEN String(rule)
  ELSE IF rule.t = "obj" THEN
    (IF FirstKey(rule) = <<>> THEN sUndefined ELSE rule.keys[1].k) \o sDots
  ELSE SliceTo(JSONstringify(rule), 30)

processResultNode(rule, st, includeValues) ==
  IF rule.t = "obj" /\ FirstKey(rule) \in {<<sIf>>, <<sTernary>>} THEN
    processIfNode(rule.keys[1].v, <<>>, Enter(st, rule), includeValues)
  ELSE IF rule.t = "obj" /\ FirstKey(rule) = <<sVar>> THEN
    withClass(declare(generateMermaidNodeId(Enter(st, rule)), <<"[", "/", "\"">>,
                      escapeLabel(formatVarName(rule.keys[1].v)), <<"\"", "/", "]">>),
              <<"v","a","r","i","a","b","l","e">>)
  ELSE
    withClass(declare(generateMermaidNodeId(Enter(st, rule)), <<"(", "[", "\"">>,
                      escapeLabel(resultLabel(rule)), <<"\"", "]", ")">>),
              <<"r","e","s","u","l","t">>)

\* the style block every document starts with
flowHeader(orientation) ==
  << TextLine(<<"f","l","o","w","c","h","a","r","t"," ">> \o orientation),
     TextLine(<<>>),
     TextLine(<<" "," ","%","%"," ","S","t","y","l","i","n","g">>),
     TextLine(<<" "," ","c","l","a","s","s","D","e","f"," ","c","o","n","d","i","t","i","o","n"," ",
         "f","i","l","l",":","#","f","e","f","3","c","7",",","s","t","r","o","k","e",
         ":","#","f","5","9","e","0","b",",","c","o","l","o","r",":","#","9","2","4",
         "0","0","e">>),
     TextLine(<<" "," ","c","l","a","s","s","D","e","f"," ","r","e","s","u","l","t"," ","f","i","l",
         "l",":","#","d","1","f","a","e","5",",","s","t","r","o","k","e",":","#","1",
         "0","b","9","8","1",",","c","o","l","o","r",":","#","0","6","5","f","4","6">>),
     TextLine(<<" "," ","c","l","a","s","s","D","e","f"," ","v","a","r","i","a","b","l","e"," ","f",
         "i","l","l",":","#","d","b","e","a","f","e",",","s","t","r","o","k","e",":",
         "#","3","b","8","2","f","6",",","c","o","l","o","r",":","#","1","e","4","0",
         "a","f">>),
     TextLine(<<" "," ","c","l","a","s","s","D","e","f"," ","o","p","e","r","a","t","o","r"," ","f",
         "i","l","l",":","#","f","3","e","8","f","f",",","s","t","r","o","k","e",":",
         "#","a","8","5","5","f","7",",","c","o","l","o","r",":","#","6","b","2","1",
         "a","8">>),
     TextLine(<<>>) >>

\* return [...lines, '', ...connections], joined with newlines by Text, and the counter and
\* history the call leaves behind
flowResult(done) ==
  [lines |-> done.lines \o <<TextLine(<<>>)>> \o done.connections, ctr |-> done.ctr,
   of |-> done.of]

\* toMermaidFlowchart(rule, options) called when the module counter holds ctr
toMermaidFlowchart(rule, options, ctr) ==
  LET orientation == IF options.orientation = <<>> THEN <<"T", "D">> ELSE options.orientation[1]
      includeValues == IF options.includeValues = <<>> THEN TRUE ELSE options.includeValues[1]
  IN flowResult(processNode(rule, <<>>,
                            [lines |-> flowHeader(orientation), connections |-> <<>>,
                             ctr |-> startNodeCounter(ctr), cur |-> Undefined, of |-> <<>>],
                            includeValues).st)

\* [...].join('\n')
Text(lines) == Join([i \in 1..Len(lines) |-> LineText(lines[i])], <<"\n">>)

(***************************************************************************)
(* The rule expressions the model is run on                                *)
(***************************************************************************)
vAge == Var(<<"a","g","e">>)
vB == Var(<<"b">>)
cAdult == Op(sGt, List(<<vAge, Num(18)>>))
cEqual == Op(sEq, List(<<Var(<<"c">>), Str(<<"x">>)>>))
\* a 60-character string with a quote, a brace and a pipe around the 50th character
LongText == [i \in 1..60 |-> IF i = 3 THEN "<" ELSE IF i = 49 THEN "\""
                             ELSE IF i = 50 THEN "{" ELSE IF i = 51 THEN "|" ELSE "w"]
\* a string made of the characters the diagram syntax reserves
Hostile == <<"a", "\"", "<", "b", ">", "{", "c", "}", "|", "\n", "d">>

\* operand i (1-based) of a generated conditional with n operands:
\* conditions at the odd places before the last, results elsewhere
IfOperand(i, n) ==
  IF i % 2 = 1 /\ i < n THEN Op(sGt, List(<<vAge, Num(10 * i)>>))
  ELSE Str(<<"r">> \o NumStr(i))

\* { "if": [c1, v1, c2, v2, ...] } with n operands, under either operator name
IfRule(operator, n) == Op(operator, List([i \in 1..n |-> IfOperand(i, n)]))

GeneratedRules ==
  [i \in 1..(2 * (MaxIfOperands + 1)) |->
     IfRule(IF i % 2 = 1 THEN sIf ELSE sTernary, (i - 1) \div 2)]

CatalogueRules ==
  << vAge,
     Op(sGe, List(<<vAge, Num(18)>>)),
     Op(sAnd, List(<<cAdult, Op(sOr, List(<<cEqual, vB>>)), Op(sNot, List(<<vB>>))>>)),
     Op(sIf, List(<<cAdult, Str(<<"a">>), Op(sIf, List(<<cEqual, Str(<<"b">>), Str(<<"c">>)>>))>>)),
     Op(sIf, List(<<cAdult, Op(<<"+">>, List(<<Num(1), Op(<<"*">>, List(<<Num(2), Num(3)>>))>>)),
                    List(<<Num(1), Str(<<"<">>)>>)>>)),
     Op(sIf, List(<<Op(sAnd, List(<<cAdult, cEqual>>)), Op(sTernary, List(<<vB, Num(1), Num(2)>>)),
                    vAge>>)),
     List(<<Num(1), List(<<Num(2), Var(<<>>)>>), Str(<<"x">>)>>),
     Op(sNot, List(<<Op(sNot, List(<<Op(sNot, List(<<Op(sNot, List(<<Op(sNot,
        List(<<Op(sNotNot, List(<<Bool(TRUE)>>))>>))>>))>>))>>))>>)),
     Op(sEq, List(<<Var(<<"n","o","t","e">>), Str(LongText)>>)),
     Op(sIf, List(<<Op(sEq, List(<<Var(Hostile), Str(Hostile)>>)), Str(Hostile),
                    List(<<Str(Hostile), Null>>)>>)),
     Op(sIf, List(<<Str(LongText), Str(Hostile), Var(LongText)>>)),
     Op(<<"a", "<", "b", "|", "c">>, List(<<Var(Hostile), Str(Hostile), Num(7)>>)),
     Op(sMap, List(<<Var(<<"x","s">>), Op(<<"*">>, List(<<Var(<<>>), Num(2)>>))>>)),
     Op(sIf, Str(<<"x">>)),
     Op(sVar, List(<<Str(<<"x">>), Num(5)>>)),
     Op(sOr, List(<<Obj(<<[k |-> sVar, v |-> Str(<<"a">>)], [k |-> <<"z">>, v |-> Num(1)]>>),
                    Obj(<<>>), Null, Bool(FALSE)>>)),
     Op(<<"m","a","x">>, Op(sIf, List(<<cAdult, Num(1)>>))),
     Null,
     Str(Hostile),
     Obj(<<>>),
     Op(sAnd, List(<<Op(sOr, List(<<cEqual, Op(sNot, List(<<Op(sLt, List(<<vB, Num(2)>>))>>))>>)),
                     Op(sIn, List(<<Var(<<"r">>), List(<<Str(<<"a">>), Str(<<"b">>)>>)>>))>>)),
     Op(sIf, List(<<cAdult, Op(sIf, List(<<cEqual, Str(<<"b">>)>>)),
                    Op(sTernary, List(<<vB, Num(1), Num(2)>>))>>)),
     Op(sIf, List(<<cAdult, vB, cEqual, Op(<<"+">>, List(<<Num(1), Num(2)>>)),
                    List(<<Num(1)>>)>>)),
     Op(sIf, List(<<cAdult, Str(<<"a">>), IfRule(sTernary, 4)>>)),
     Op(<<"+">>, List(<<Num(1), IfRule(sIf, 4)>>)),
     Op(sNot, vB),
     Op(sNotNot, Op(sNot, List(<<vB>>))) >>

\* degenerate shapes: operators over no operands, the empty list, lists in lists
DegenerateRules ==
  << Op(sAnd, List(<<>>)),
     Op(sOr, List(<<>>)),
     Op(<<"+">>, List(<<>>)),
     Op(sNot, List(<<>>)),
     Op(sVar, List(<<>>)),
     List(<<>>),
     List(<<List(<<List(<<List(<<>>), Num(1)>>)>>), List(<<Num(1), Num(2), Num(3), Num(4)>>)>>),
     Op(sEq, List(<<Num(1)>>)),
     Op(sIn, List(<<Str(<<"a">>)>>)),
     Op(sNotNot, Null) >>

Rules == CatalogueRules \o GeneratedRules \o DegenerateRules
RuleIxs == 1..Len(Rules)
\* the rules the tree view is exercised on: those whose trees have inner nodes
TreeRuleIxs == {3, 4, 5, 6, 8, 17, Len(CatalogueRules) + 7}

(***************************************************************************)
(* State                                                                   *)
(***************************************************************************)
VARIABLES
  nodeIdCounter,  \* lib/tree/parser: let nodeIdCounter
  nodeCounter,    \* lib/mermaid/converter: let nodeCounter
  heap,           \* the tree objects allocated so far
  root,           \* RuleTree prop `root`: reference into heap, 0 for null
  tree,           \* RuleTree state `tree`: reference into heap, 0 for null
  layout,         \* RuleTree memo `layout`: <<>> for null, else <<TreeLayout>>
  rule,           \* index of the rule last compiled, 0 before the first
  compiled,       \* log of the parseRuleToTree calls: rule index and outcome
  lastCall,       \* the operation that produced this state, with its argument and result
  toggledOdd,     \* ids toggled an odd number of times since baseFlags was taken
  baseFlags,      \* the expansion flags when the toggle count started
  ops,            \* number of expansion operations performed
  flow,           \* the last toMermaidFlowchart call: the lines returned, <<>> before it
  emitted,        \* log of the toMermaidFlowchart calls: rule index, options and text
  zoom,           \* RuleTree state `zoom`, a fraction
  zooms,          \* number of uses of the zoom controls and the wheel
  pan,            \* RuleTree state `pan`
  ruleText,       \* Home state `ruleText`, the text of the JSON editor
  textValue,      \* the value the text of the JSON editor parses to
  parsedValue,    \* Home state `parsedValue`
  activeTab,      \* Home state `activeTab`
  builderRule,    \* RuleBuilder state `rule`
  history,        \* RuleBuilder state `history`
  historyIndex,   \* RuleBuilder state `historyIndex`
  edits,          \* number of changes made in the rule builder
  code,           \* MermaidPreview prop `code`
  mounted,        \* MermaidPreview is mounted
  effectPending,  \* a render of MermaidPreview is committed and its effect has not run yet
  svgContent,     \* MermaidPreview state `svgContent`: <<>> for '', else <<the svg>>
  error,          \* MermaidPreview state `error`: <<>> for null, else <<the message>>
  isLoading,      \* MermaidPreview state `isLoading`
  runs,           \* the runs of the effect that set a timer: code, isMounted, timer, stage
  cleanup,        \* the run whose cleanup function the last effect returned, 0 for none
  changes         \* number of changes of the code prop

vars == <<nodeIdCounter, nodeCounter, heap, root, tree, layout, rule, compiled, lastCall,
          toggledOdd, baseFlags, ops, flow, emitted, zoom, pan, zooms,
          ruleText, textValue, parsedValue, activeTab, builderRule, history, historyIndex, edits,
          code, mounted, effectPending, svgContent, error, isLoading, runs, cleanup, changes>>

treeVars == <<nodeIdCounter, heap, root, tree, layout, rule, compiled, toggledOdd, baseFlags, ops>>
flowVars == <<nodeCounter, flow, emitted>>
viewVars == <<zoom, pan, zooms>>
homeVars == <<ruleText, textValue, parsedValue, activeTab, builderRule, history, historyIndex, edits>>
previewVars == <<code, mounted, effectPending, svgContent, error, isLoading, runs, cleanup, changes>>

NoCall == [op |-> "none"]

\* the rule object the initial text of the JSON editor holds
DefaultValue ==
  Obj(<<[k |-> <<"g","r","o","u","p","_","i","d">>,
         v |-> Op(sIf, List(<<cEqual, Str(<<"A">>), Str(<<"B">>)>>))]>>)
\* Home DEFAULT_RULE: comment lines, then the rule object
DEFAULT_RULE == <<"/", "/", " ", "r", "\n">> \o JSONstringifyIndent(DefaultValue, 0)

\* the expanded flags of a tree, in pre-order
RECURSIVE Flags(_)
Flags(node) ==
  LET RECURSIVE kids(_)
      kids(i) == IF i > Len(node.children) THEN <<>> ELSE Flags(node.children[i]) \o kids(i + 1)
  IN <<node.expanded>> \o kids(1)

\* the ids of a tree, in pre-order
RECURSIVE Ids(_)
Ids(node) ==
  LET RECURSIVE kids(_)
      kids(i) == IF i > Len(node.children) THEN <<>> ELSE Ids(node.children[i]) \o kids(i + 1)
  IN <<node.id>> \o kids(1)

Range(s) == {s[i] : i \in 1..Len(s)}

\* the values of the code prop of MermaidPreview: no diagram, and two diagrams
CodeA == <<"A">>
CodeB == <<"B">>
Codes == {<<>>, CodeA, CodeB}

Init ==
  /\ nodeIdCounter = 0
  /\ nodeCounter = 0
  /\ heap = <<>>
  /\ root = 0
  /\ tree = 0
  /\ layout = <<>>
  /\ rule = 0
  /\ compiled = <<>>
  /\ lastCall = NoCall
  /\ toggledOdd = {}
  /\ baseFlags = <<>>
  /\ ops = 0
  /\ flow = [lines |-> <<>>, of |-> <<>>]
  /\ emitted = <<>>
  /\ zoom = Frac(1, 1)
  /\ pan = [x |-> 20, y |-> 20]
  /\ zooms = 0
  /\ ruleText = DEFAULT_RULE
  /\ textValue = DefaultValue
  /\ parsedValue = DefaultValue
  /\ activeTab = "visualize"
  /\ builderRule = Null
  /\ history = <<>>
  /\ historyIndex = 0
  /\ edits = 0
  /\ code = CodeA
  /\ mounted = TRUE
  /\ effectPending = TRUE
  /\ svgContent = <<>>
  /\ error = <<>>
  /\ isLoading = TRUE
  /\ runs = <<>>
  /\ cleanup = 0
  /\ changes = 0

(***************************************************************************)
(* Operations of the tree view                                             *)
(***************************************************************************)
\* MultiRuleViewer compiles rule r (parseRuleToTree(jsonRule)) and hands the tree to
\* RuleTree, whose effect stores it in `tree`; a throw is caught and leaves no tree.
Build(r) ==
  LET res == parseRuleToTree(Rules[r], <<>>, 0, <<>>, nodeIdCounter, StackLimit) IN
  /\ nodeIdCounter' = res.ctr
  /\ rule' = r
  /\ compiled' = Append(compiled, [rule |-> r, ok |-> res.ok,
                                   tree |-> IF res.ok THEN <<res.node>> ELSE <<>>])
  /\ heap' = IF res.ok THEN <<res.node>> ELSE <<>>
  /\ root' = IF res.ok THEN 1 ELSE 0
  /\ tree' = IF res.ok THEN 1 ELSE 0
  /\ layout' = <<>>
  /\ lastCall' = [op |-> "build", ok |-> res.ok]
  /\ toggledOdd' = {}
  /\ baseFlags' = IF res.ok THEN Flags(res.node) ELSE <<>>
  /\ ops' = 0
  /\ UNCHANGED <<flowVars, viewVars, previewVars, homeVars>>

\* the heap with only the objects the references in `live` reach, in allocation order
Collect(h, live) ==
  LET kept == SelectSeq([i \in 1..Len(h) |-> i], LAMBDA i: i \in live) IN
  [i \in 1..Len(kept) |-> h[kept[i]]]

\* the reference of object ref after Collect(h, live)
Moved(ref, live) == Cardinality({i \in live : i <= ref})

\* RuleTree render: the layout memo runs calculateTreeLayout(tree)
Layout ==
  /\ tree # 0
  /\ LET res == calculateTreeLayout(heap, tree, DEFAULT_CONFIG)
         live == {root, tree}
     IN
     /\ heap' = Collect(res.heap, live)
     /\ tree' = Moved(tree, live)
     /\ layout' = <<res.ret>>
     /\ lastCall' = [op |-> "layout", arg |-> Moved(tree, live)]
  /\ UNCHANGED <<nodeIdCounter, root, rule, compiled, toggledOdd, baseFlags, ops>>
  /\ UNCHANGED <<flowVars, viewVars, previewVars, homeVars>>

\* the state RuleTree is left in by setTree(res.ret) for the tree returned by an
\* expansion operation called on `tree`; the previous tree stays referenced by the caller
SetTree(res, call) ==
  LET live == {root, tree, res.ret} IN
  /\ heap' = Collect(res.heap, live)
  /\ tree' = Moved(res.ret, live)
  /\ layout' = <<>>
  /\ lastCall' = [op |-> call.op, nodeId |-> call.nodeId, arg |-> Moved(tree, live),
                  before |-> heap[tree], ret |-> Moved(res.ret, live)]
  /\ ops' = ops + 1
  /\ UNCHANGED <<nodeIdCounter, root, rule, compiled>>
  /\ UNCHANGED <<flowVars, viewVars, previewVars, homeVars>>

\* RuleTree handleToggle(nodeId), from a rendered tree
Toggle(nodeId) ==
  /\ tree # 0 /\ layout # <<>> /\ ops < MaxOps
  /\ SetTree(toggleNodeExpansion(heap, tree, nodeId), [op |-> "toggle", nodeId |-> nodeId])
  /\ toggledOdd' = IF nodeId \in toggledOdd THEN toggledOdd \ {nodeId}
                   ELSE toggledOdd \cup {nodeId}
  /\ UNCHANGED baseFlags

\* RuleTree handleExpandAll
ExpandAll ==
  /\ tree # 0 /\ layout # <<>> /\ ops < MaxOps
  /\ SetTree(expandAllNodes(heap, tree), [op |-> "expandAll", nodeId |-> <<>>])
  /\ baseFlags' = Flags(heap'[tree'])
  /\ toggledOdd' = {}

\* RuleTree handleCollapseAll
CollapseAll ==
  /\ tree # 0 /\ layout # <<>> /\ ops < MaxOps
  /\ SetTree(collapseAllNodes(heap, tree), [op |-> "collapseAll", nodeId |-> <<>>])
  /\ baseFlags' = Flags(heap'[tree'])
  /\ toggledOdd' = {}

\* an id no node carries
MissingId == NodeId(0)

\* the compiler called on one rule after another: any rule first, then rules of a
\* small set, so that a rule is compiled again after others
RebuildIxs == {3, 4, Len(CatalogueRules) + 9, Len(CatalogueRules) + 11}
NextBuild ==
  /\ Len(compiled) < MaxBuilds
  /\ \E r \in (IF compiled = <<>> THEN RuleIxs ELSE RebuildIxs) : Build(r)
SpecBuild == Init /\ [][NextBuild]_vars

\* one tree view: a rule is compiled and mounted, then expanded, collapsed and laid out
Mount == compiled = <<>> /\ \E r \in TreeRuleIxs : Build(r)
ToggleSome == tree # 0 /\ \E id \in Range(Ids(heap[tree])) \cup {MissingId} : Toggle(id)
NextTree == Mount \/ Layout \/ ToggleSome \/ ExpandAll \/ CollapseAll
SpecTree == Init /\ [][NextTree]_vars

\* a caller lays the tree out with calculateTreeLayout(tree, { orientation }); the
\* control points of horizontal edge paths are whole numbers here, where the division by
\* two can leave a half in the code
Orientations == {"vertical", "horizontal"}
LayoutAs(orientation) ==
  /\ tree # 0
  /\ LET res == calculateTreeLayout(heap, tree, [DEFAULT_CONFIG EXCEPT !.orientation = orientation])
         live == {root, tree}
     IN
     /\ heap' = Collect(res.heap, live)
     /\ tree' = Moved(tree, live)
     /\ layout' = <<res.ret>>
     /\ lastCall' = [op |-> "layoutAs", orientation |-> orientation, arg |-> Moved(tree, live)]
  /\ UNCHANGED <<nodeIdCounter, root, rule, compiled, toggledOdd, baseFlags, ops>>
  /\ UNCHANGED <<flowVars, viewVars, previewVars, homeVars>>

LayoutSome == \E orientation \in Orientations : LayoutAs(orientation)
NextOrient == Mount \/ LayoutSome \/ ToggleSome
SpecOrient == Init /\ [][NextOrient]_vars

\* the default of the padding parameter of calculateFitZoom
DefaultPadding == 40

\* widths and heights of the container, in pixels
Viewports == {0, 60, 80, 200, 400, 800, 1600, 3200}

\* RuleTree handleFitToScreen, the container measuring w by h
FitToScreen(w, h) ==
  /\ layout # <<>>
  /\ zoom' = calculateFitZoom(layout[1], w, h, DefaultPadding)
  /\ pan' = [x |-> 20, y |-> 20]
  /\ lastCall' = [op |-> "fit", width |-> w, height |-> h,
                  layout |-> [width |-> layout[1].width, height |-> layout[1].height]]
  /\ UNCHANGED <<zooms, treeVars, flowVars, homeVars, previewVars>>

\* one tree view: a rule is compiled, mounted and laid out, then fitted to the container
FitSome == \E w, h \in Viewports : FitToScreen(w, h)
NextFit == Mount \/ Layout \/ FitSome
SpecFit == Init /\ [][NextFit]_vars

\* a * n / d
FracTimes(a, n, d) == Frac(a.num * n, a.den * d)
\* Math.max(a, b)
FracMax(a, b) == IF FracLeq(a, b) THEN b ELSE a
MinZoom == Frac(3, 10)
MaxZoom == Frac(3, 1)

\* a zoom control of the tree view is used; the controls exist while a layout is shown
ZoomStep(newZoom, op) ==
  /\ layout # <<>>
  /\ zooms < MaxZooms
  /\ zoom' = newZoom
  /\ zooms' = zooms + 1
  /\ lastCall' = [op |-> op, from |-> zoom]
  /\ UNCHANGED <<pan, treeVars, flowVars, homeVars, previewVars>>

\* setZoom(z => Math.min(z * 1.2, 3))
handleZoomIn == ZoomStep(FracMin(FracTimes(zoom, 6, 5), MaxZoom), "zoomIn")
\* setZoom(z => Math.max(z / 1.2, 0.3))
handleZoomOut == ZoomStep(FracMax(FracTimes(zoom, 5, 6), MinZoom), "zoomOut")
\* the wheel turns over the tree: delta is 0.9 for deltaY > 0 and 1.1 otherwise
handleWheel(deltaYPositive) ==
  LET scaled == IF deltaYPositive THEN FracTimes(zoom, 9, 10) ELSE FracTimes(zoom, 11, 10) IN
  ZoomStep(FracMin(FracMax(scaled, MinZoom), MaxZoom), "wheel")

WheelSome == \E deltaYPositive \in BOOLEAN : handleWheel(deltaYPositive)
\* containers for the tree view with its zoom controls: none, small, large
ZoomViewports == {0, 200, 3200}
FitAmongZooms == \E w, h \in ZoomViewports : FitToScreen(w, h)
NextZoom == Mount \/ Layout \/ FitAmongZooms \/ handleZoomIn \/ handleZoomOut \/ WheelSome
SpecZoom == Init /\ [][NextZoom]_vars

(***************************************************************************)
(* Guided rule builder (components/builder) and the JSON editor of Home    *)
(***************************************************************************)
\* the rules of the template library
Templates ==
  {vB, cAdult, Op(sNot, vB), Op(sIf, List(<<cAdult, Str(<<"a">>), Str(<<"b">>)>>))}
\* what the text input of a block is given: a variable name, or a value (JSON.parse of
\* the text, or the text itself when it does not parse)
EditTexts == {<<"q">>, <<>>}
EditValues == {Num(0), Str(<<"z">>)}

\* the array index an object key denotes, for the keys "0" .. "9"
KeyIndex(key) ==
  IF Len(key) = 1 /\ \E d \in 0..9 : Digit(d) = key[1]
  THEN <<CHOOSE d \in 0..9 : Digit(d) = key[1]>> ELSE <<>>

\* current[key] on an object or array
Get(v, key) ==
  IF v.t = "obj"
  THEN LET hits == SelectSeq(v.keys, LAMBDA e: e.k = key) IN
       IF Len(hits) = 0 THEN Undefined ELSE hits[1].v
  ELSE LET ix == KeyIndex(key) IN
       IF ix # <<>> /\ ix[1] < Len(v.items) THEN v.items[ix[1] + 1] ELSE Undefined

\* current[key] = value on an object or array; a property of an array that is not an
\* index does not belong to its items
Put(v, key, value) ==
  IF v.t = "obj"
  THEN IF \E i \in 1..Len(v.keys) : v.keys[i].k = key
       THEN Obj([i \in 1..Len(v.keys) |->
                   IF v.keys[i].k = key THEN [k |-> key, v |-> value] ELSE v.keys[i]])
       ELSE Obj(Append(v.keys, [k |-> key, v |-> value]))
  ELSE LET ix == KeyIndex(key) IN
       IF ix = <<>> THEN v
       ELSE List([i \in 1..Max2(Len(v.items), ix[1] + 1) |->
                    IF i = ix[1] + 1 THEN value
                    ELSE IF i <= Len(v.items) THEN v.items[i] ELSE Undefined])

\* handleBlockUpdate's walk along path and assignment of value, on the clone
RECURSIVE SetAt(_, _, _)
SetAt(v, path, value) ==
  IF ~IsObjectLike(v) THEN v
  ELSE IF Len(path) = 0 THEN Put(v, sUndefined, value)
  ELSE IF Len(path) = 1 THEN Put(v, path[1], value)
  ELSE LET child == Get(v, path[1]) IN
       IF ~IsObjectLike(child) THEN v ELSE Put(v, path[1], SetAt(child, Tail(path), value))

\* the onUpdate calls the RuleBlock of `r` at `path`, and the blocks below it, can make
RECURSIVE BlockEdits(_, _)
BlockEdits(r, path) ==
  LET below(children, prefix) ==
        UNION {BlockEdits(children[i], prefix \o <<NumStr(i - 1)>>) : i \in 1..Len(children)}
  IN
  IF r.t \in {"null", "str", "num", "bool"}
  THEN {[path |-> path, value |-> v] : v \in EditValues}
  ELSE IF r.t = "list" THEN below(r.items, path)
  ELSE IF Len(r.keys) = 0 THEN {}
  ELSE
    LET operator == r.keys[1].k
        operands == r.keys[1].v
        children == IF operands.t = "list" THEN operands.items
                    ELSE IF operands.t \in {"null", "undefined"} THEN <<>>
                    ELSE <<operands>>
        own == IF operator = sVar
               THEN {[path |-> path \o <<sVar>>, value |-> Str(t)] : t \in EditTexts}
               ELSE {}
    IN own \cup (IF Len(operator) = 0 THEN {} ELSE below(children, path \o <<operator>>))

\* Home's onRuleChange
onRuleChange(newRule) ==
  IF Truthy(newRule)
  THEN /\ ruleText' = JSONstringifyIndent(newRule, 0)
       /\ textValue' = JsonValue(newRule)
  ELSE UNCHANGED <<ruleText, textValue>>

\* updateRule without the truncation of the future entries
updateRuleKeepFuture(newRule, op) ==
  LET newHistory == Append(history, [rule |-> newRule]) IN
  /\ activeTab = "builder" /\ edits < MaxEdits
  /\ builderRule' = newRule
  /\ onRuleChange(newRule)
  /\ history' = newHistory
  /\ historyIndex' = Len(newHistory) - 1
  /\ edits' = edits + 1
  /\ lastCall' = [op |-> op, discarded |-> Len(history) - Min2(historyIndex + 1, Len(history))]
  /\ UNCHANGED <<parsedValue, activeTab, treeVars, flowVars, viewVars, previewVars>>

\* RuleBuilder updateRule
updateRule(newRule, op) ==
  LET kept == SubSeq(history, 1, Min2(historyIndex + 1, Len(history)))
      newHistory == Append(kept, [rule |-> newRule])
  IN
  /\ activeTab = "builder" /\ edits < MaxEdits
  /\ builderRule' = newRule
  /\ onRuleChange(newRule)
  /\ history' = newHistory
  /\ historyIndex' = Len(newHistory) - 1
  /\ edits' = edits + 1
  /\ lastCall' = [op |-> op, discarded |-> Len(history) - Len(kept)]
  /\ UNCHANGED <<parsedValue, activeTab, treeVars, flowVars, viewVars, previewVars>>

handleSelectTemplate == \E template \in Templates : updateRule(JsonValue(template), "template")

handleBlockUpdate ==
  /\ Truthy(builderRule)
  /\ \E e \in BlockEdits(builderRule, <<>>) :
       updateRule(SetAt(JsonValue(builderRule), e.path, e.value), "block")

\* the clear button and the delete button of the root block, shown while there is a rule
handleClear == Truthy(builderRule) /\ updateRule(Null, "clear")

\* handleUndo (step = -1) and handleRedo (step = 1)
moveInHistory(step, op) ==
  LET newIndex == historyIndex + step IN
  /\ activeTab = "builder" /\ edits < MaxEdits
  /\ historyIndex' = newIndex
  /\ builderRule' = history[newIndex + 1].rule
  /\ onRuleChange(history[newIndex + 1].rule)
  /\ edits' = edits + 1
  /\ lastCall' = [op |-> op]
  /\ UNCHANGED <<history, parsedValue, activeTab, treeVars, flowVars, viewVars, previewVars>>

handleUndo == historyIndex > 0 /\ moveInHistory(-1, "undo")
handleRedo == historyIndex < Len(history) - 1 /\ moveInHistory(1, "redo")

\* the Builder tab is selected: RuleBuilder mounts with initialRule = parsedValue || undefined
OpenBuilder ==
  /\ activeTab # "builder"
  /\ activeTab' = "builder"
  /\ builderRule' = (IF Truthy(parsedValue) THEN parsedValue ELSE Null)
  /\ history' = <<[rule |-> builderRule']>>
  /\ historyIndex' = 0
  /\ lastCall' = [op |-> "open"]
  /\ UNCHANGED <<ruleText, textValue, parsedValue, edits, treeVars, flowVars, viewVars, previewVars>>

\* the Visualize tab is selected: RuleBuilder unmounts and its state is dropped
CloseBuilder ==
  /\ activeTab = "builder"
  /\ activeTab' = "visualize"
  /\ builderRule' = Null
  /\ history' = <<>>
  /\ historyIndex' = 0
  /\ lastCall' = [op |-> "close"]
  /\ UNCHANGED <<ruleText, textValue, parsedValue, edits, treeVars, flowVars, viewVars, previewVars>>

\* Home's debounced effect on ruleText: the text is parsed into parsedValue
Reparse ==
  /\ parsedValue # textValue
  /\ parsedValue' = textValue
  /\ lastCall' = [op |-> "parse"]
  /\ UNCHANGED <<ruleText, textValue, activeTab, builderRule, history, historyIndex, edits,
                 treeVars, flowVars, viewVars, previewVars>>

NextHome ==
  \/ OpenBuilder \/ CloseBuilder \/ Reparse
  \/ handleSelectTemplate \/ handleBlockUpdate \/ handleClear \/ handleUndo \/ handleRedo
SpecHome == Init /\ [][NextHome]_vars

(***************************************************************************)
(* Operations of the flowchart emitter                                     *)
(***************************************************************************)
sLR == <<"L", "R">>
\* the options a caller passes: none, includeValues only, orientation and includeValues
Options ==
  { [orientation |-> <<>>, includeValues |-> <<>>],
    [orientation |-> <<>>, includeValues |-> <<FALSE>>],
    [orientation |-> <<sLR>>, includeValues |-> <<TRUE>>] }

\* the state after toMermaidFlowchart(rule r, options) returned res
Returned(r, options, res) ==
  /\ nodeCounter' = res.ctr
  /\ flow' = [lines |-> res.lines, of |-> res.of]
  /\ emitted' = Append(emitted, [rule |-> r, options |-> options, text |-> Text(res.lines)])
  /\ lastCall' = [op |-> "emit", rule |-> r, options |-> options]
  /\ UNCHANGED <<treeVars, viewVars, previewVars, homeVars>>

\* a caller runs toMermaidFlowchart(rule r, options)
Emit(r, options) == Returned(r, options, toMermaidFlowchart(Rules[r], options, nodeCounter))

\* the emitter called on one rule after another: any rule first, then rules of a
\* small set, so that a rule is emitted again after others
ReemitIxs == {3, 6}
ReemitOptions == {o \in Options : o.orientation = <<>>}
NextFlow ==
  /\ Len(emitted) < MaxEmits
  /\ \E r \in (IF emitted = <<>> THEN RuleIxs ELSE ReemitIxs) :
       \E o \in (IF emitted = <<>> THEN Options ELSE ReemitOptions) : Emit(r, o)
SpecFlow == Init /\ [][NextFlow]_vars

(***************************************************************************)
(* Properties                                                              *)
(***************************************************************************)
\* the tree with every expanded flag erased
RECURSIVE Erased(_)
Erased(node) ==
  [node EXCEPT !.expanded = FALSE,
               !.children = [i \in 1..Len(node.children) |-> Erased(node.children[i])]]

\* the tree a with the expanded flags of the equally shaped tree b
RECURSIVE CopyFlags(_, _)
CopyFlags(a, b) ==
  [a EXCEPT !.expanded = b.expanded,
            !.children = [i \in 1..Len(a.children) |-> CopyFlags(a.children[i], b.children[i])]]

\* what a TreeLayout draws: the box of every returned node, the edges, the canvas
Geometry(l) ==
  [nodes |-> [i \in 1..Len(l.nodes) |->
                [id |-> l.nodes[i].id, x |-> l.nodes[i].x, y |-> l.nodes[i].y,
                 width |-> l.nodes[i].width, height |-> l.nodes[i].height]],
   edges |-> l.edges, width |-> l.width, height |-> l.height]

\* horizontal extent of the boxes of the visible nodes of a subtree
SpanLeft(node) == LET ns == collectNodes(node) IN
  CHOOSE m \in {ns[i].x[1] : i \in 1..Len(ns)} : \A i \in 1..Len(ns) : m <= ns[i].x[1]
SpanRight(node) == LET ns == collectNodes(node) IN
  CHOOSE m \in {ns[i].x[1] + ns[i].width[1] : i \in 1..Len(ns)} :
    \A i \in 1..Len(ns) : m >= ns[i].x[1] + ns[i].width[1]

\* the tree the builder returns for rule r when called first
FreshTree(r) == parseRuleToTree(Rules[r], <<>>, 0, <<>>, 0, StackLimit).node

\* C1 (as claimed): parseRuleToTree returns a tree for every rule and never raises; the
\* chained decomposition of an if / ?: of any operand count reaches its base case
C1_BuilderNeverRaises == \A i \in 1..Len(compiled) : compiled[i].ok

\* C2: toggleNodeExpansion, expandAllNodes and collapseAllNodes return a new tree object,
\* leave every field of every node of their input as it was, and the returned tree
\* differs from the input in expanded flags only
C2_ExpansionCopiesOnWrite ==
  lastCall.op \in {"toggle", "expandAll", "collapseAll"} =>
    /\ lastCall.ret # lastCall.arg
    /\ heap[lastCall.arg] = lastCall.before
    /\ Erased(heap[lastCall.ret]) = Erased(lastCall.before)

C2_Witness ==
  /\ lastCall.op = "toggle"
  /\ lastCall.before.x # <<>>
  /\ Flags(heap[lastCall.ret]) # Flags(lastCall.before)

\* C3: toggling the same id twice gives a tree equal to the original, and after toggles
\* in which every id was toggled an even number of times the expanded flags are the
\* original ones
C3_TogglePairRestores ==
  tree # 0 =>
    /\ \A id \in Range(Ids(heap[tree])) \cup {MissingId} :
         LET once == toggleNodeExpansion(heap, tree, id)
             twice == toggleNodeExpansion(once.heap, once.ret, id)
         IN /\ Flags(twice.heap[twice.ret]) = Flags(heap[tree])
            /\ twice.heap[twice.ret] = heap[tree]
    /\ toggledOdd = {} => Flags(heap[tree]) = baseFlags

C3_Witness ==
  /\ lastCall.op = "toggle"
  /\ lastCall.nodeId \in Range(Ids(heap[tree]))
  /\ toggledOdd = {}
  /\ ops = MaxOps
  /\ Flags(lastCall.before) # baseFlags

\* C4: after a vertical layout, the subtrees of two visible siblings occupy disjoint
\* horizontal spans in child order, and every visible child lies below its parent
C4_LayoutNoOverlap ==
  lastCall.op = "layout" =>
    \A n \in 1..Len(layout[1].nodes) :
      LET p == layout[1].nodes[n] IN
      p.expanded =>
        /\ \A i, j \in 1..Len(p.children) :
             i < j => SpanRight(p.children[i]) <= SpanLeft(p.children[j])
        /\ \A i \in 1..Len(p.children) : p.children[i].y[1] > p.y[1]

C4_Witness ==
  /\ lastCall.op = "layout"
  /\ \E n \in 1..Len(layout[1].nodes) :
       LET p == layout[1].nodes[n] IN
       /\ p.expanded /\ Len(p.children) >= 2
       /\ p.children[1].expanded /\ Len(p.children[1].children) >= 2
       /\ p.children[1].subtreeWidth[1] > p.children[1].width[1]

\* C5: the geometry calculateTreeLayout returns depends on the tree's shape, labels and
\* expanded flags only: it is the geometry of a freshly built tree given the same flags,
\* whatever earlier passes left in the nodes
C5_LayoutOfFlagsOnly ==
  lastCall.op = "layout" =>
    Geometry(layout[1]) =
      Geometry(calculateTreeLayout(<<CopyFlags(FreshTree(rule), heap[tree])>>, 1,
                                   DEFAULT_CONFIG).ret)

\* a layout pass over a tree in which a hidden node still carries the position and the
\* subtree width an earlier pass gave it
C5_Witness ==
  /\ lastCall.op = "layout"
  /\ ops >= 2
  /\ LET all == flattenTree(heap[tree], <<>>)
         shown == {layout[1].nodes[i].id : i \in 1..Len(layout[1].nodes)}
     IN \E i \in 1..Len(all) :
          LET node == NodeAt(heap[tree], all[i]) IN
          node.id \notin shown /\ node.x # <<>> /\ node.subtreeWidth # <<>>

\* C6: two top-level parseRuleToTree calls on the same rule return the same tree, ids
\* included, whatever was compiled in between: the ids of every call are node-1, node-2,
\* ... in pre-order
C6_BuildReproducible ==
  /\ \A i, j \in 1..Len(compiled) :
       compiled[i].rule = compiled[j].rule => compiled[i] = compiled[j]
  /\ \A i \in 1..Len(compiled) :
       compiled[i].ok =>
         LET ids == Ids(compiled[i].tree[1]) IN \A k \in 1..Len(ids) : ids[k] = NodeId(k)

C6_Witness ==
  /\ Len(compiled) = 3
  /\ compiled[3].ok
  /\ compiled[1].rule = compiled[3].rule
  /\ compiled[2].rule # compiled[1].rule
  /\ compiled[2].ok
  /\ Len(compiled[3].tree[1].children) > 0

(***************************************************************************)
(* The label formatter on its own                                          *)
(***************************************************************************)
\* the values a rule is made of: the rule, its operands, their operands, ...
RECURSIVE SubRules(_)
SubRules(r) ==
  {r} \cup (CASE r.t = "list" -> UNION {SubRules(r.items[i]) : i \in 1..Len(r.items)}
              [] r.t = "obj" -> UNION {SubRules(r.keys[i].v) : i \in 1..Len(r.keys)}
              [] OTHER -> {})

\* var operations over every shape of path: absent, empty, a name, a number, a list
VarRules ==
  {Op(sVar, path) : path \in {Null, Str(<<>>), Str(<<"a">>), Num(5), List(<<>>),
                              List(<<Str(<<>>)>>), List(<<Str(<<"a">>)>>), List(<<Num(1)>>),
                              List(<<Str(<<>>), Num(0)>>)}}

LabelInputs == UNION {SubRules(Rules[i]) : i \in RuleIxs} \cup VarRules

\* buildLabel(rule, compact) is called and returns
Label(r, compact) ==
  /\ lastCall' = [op |-> "label", rule |-> r, compact |-> compact, ret |-> buildLabel(r, compact)]
  /\ UNCHANGED <<treeVars, flowVars, viewVars, previewVars, homeVars>>

NextLabel == \E r \in LabelInputs : \E compact \in BOOLEAN : Label(r, compact)
SpecLabel == Init /\ [][NextLabel]_vars

(***************************************************************************)
(* Properties of the flowchart emitter                                     *)
(***************************************************************************)
Special == {"\"", "<", ">", "{", "}", "|", "\n"}
YesText == <<"U+2713", " ", "Y", "e", "s">>
NoText == <<"U+2717", " ", "N", "o">>

NodeLines == SelectSeq(flow.lines, LAMBDA l : l.kind = "node")
EdgeLines == SelectSeq(flow.lines, LAMBDA l : l.kind = "edge")
\* the edges leaving the node id, in the order of the text
OutEdges(id) == SelectSeq(EdgeLines, LAMBDA l : l.from = id)
\* the part of the rule the node id was emitted for
RuleOf(id) == (CHOOSE e \in Range(flow.of) : e.id = id).rule
\* the position in the text of the declaration of the node id
DeclPos(id) == CHOOSE i \in 1..Len(flow.lines) : flow.lines[i].kind = "node" /\ flow.lines[i].id = id
\* the decision diamonds of well-formed conditionals
Diamonds == {l \in Range(NodeLines) : l.open = <<"{", "\"">>}

\* the string values, variable paths and operator names of a rule
RECURSIVE InputTexts(_)
InputTexts(r) ==
  CASE r.t = "str" -> {r.s}
    [] r.t = "list" -> UNION {InputTexts(r.items[i]) : i \in 1..Len(r.items)}
    [] r.t = "obj" -> UNION {{r.keys[i].k} \cup InputTexts(r.keys[i].v) : i \in 1..Len(r.keys)}
    [] OTHER -> {}

\* the operands of a rule: the items of an array, the operand list of an operator, or its
\* single operand
Operands(r) ==
  IF r.t = "list" THEN r.items
  ELSE IF r.t = "obj" /\ Len(r.keys) > 0
  THEN (IF IsArray(r.keys[1].v) THEN r.keys[1].v.items ELSE <<r.keys[1].v>>)
  ELSE <<>>

\* a is b with some elements left out
RECURSIVE IsSubseq(_, _)
IsSubseq(a, b) ==
  IF a = <<>> THEN TRUE
  ELSE IF b = <<>> THEN FALSE
  ELSE IF Head(a) = Head(b) THEN IsSubseq(Tail(a), Tail(b))
  ELSE IsSubseq(a, Tail(b))

\* C7: whatever characters the strings, variable paths and operator names of the rule
\* contain, the label interpolated into a node declaration of the returned text holds
\* none of the characters " < > { } | and newline, and is at most 50 characters long.
C7_LabelsEscaped ==
  \A i \in 1..Len(NodeLines) :
    /\ Range(NodeLines[i].label) \cap Special = {}
    /\ Len(NodeLines[i].label) <= 50

\* a rule with a text of more than 50 characters holding such characters was emitted,
\* and a label was cut to 50 characters
C7_Witness ==
  /\ lastCall.op = "emit"
  /\ \E t \in InputTexts(Rules[lastCall.rule]) : Len(t) > 50 /\ Range(t) \cap Special # {}
  /\ \E t \in InputTexts(Rules[lastCall.rule]) : Cardinality(Range(t) \cap Special) >= 6
  /\ \E i \in 1..Len(NodeLines) : Len(NodeLines[i].label) = 50

\* C8 as stated: every decision diamond of a conditional with at least two operands has
\* exactly two outgoing edges, the first labeled Yes to the node of the then result, the
\* second labeled No to the node of the else result.
C8_AlwaysTwoBranches ==
  \A d \in Diamonds :
    LET out == OutEdges(d.id)
        operands == Operands(RuleOf(d.id))
    IN /\ Len(out) = 2
       /\ out[1].label = YesText /\ RuleOf(out[1].to) = At(operands, 1)
       /\ out[2].label = NoText /\ RuleOf(out[2].to) = At(operands, 2)

\* C8, amended: every decision diamond of a conditional with at least two operands has a
\* first outgoing edge labeled Yes to the node of its second operand; when the
\* conditional has a third operand it has exactly one more edge, listed after it and
\* labeled No, to the node of the third operand; when it has only two operands the Yes
\* edge is its only outgoing edge.
C8_BranchesPresent ==
  \A d \in Diamonds :
    LET out == OutEdges(d.id)
        operands == Operands(RuleOf(d.id))
    IN /\ Len(operands) >= 2
       /\ Len(out) = (IF Len(operands) >= 3 THEN 2 ELSE 1)
       /\ out[1].label = YesText /\ RuleOf(out[1].to) = At(operands, 1)
       /\ Len(out) = 2 => (out[2].label = NoText /\ RuleOf(out[2].to) = At(operands, 2))

\* one text with a diamond of a two-operand conditional (one edge) and diamonds of
\* three-operand conditionals (two edges)
C8_Witness ==
  /\ \E d \in Diamonds : Len(Operands(RuleOf(d.id))) = 2 /\ Len(OutEdges(d.id)) = 1
  /\ \E d \in Diamonds : Len(Operands(RuleOf(d.id))) = 3 /\ Len(OutEdges(d.id)) = 2

\* C9: in the text of every call, however many calls came before, the k-th node
\* declaration carries the id n<k> (ids are distinct, start from a counter at zero and
\* are declared in increasing order), the counter ends at the number of nodes, and every
\* id at either end of an edge is declared exactly once.
C9_IdsPerCall ==
  /\ \A k \in 1..Len(NodeLines) : NodeLines[k].id = <<"n">> \o NumStr(k)
  /\ emitted # <<>> => nodeCounter = Len(NodeLines)
  /\ Len(flow.of) = Len(NodeLines)
  /\ \A i \in 1..Len(EdgeLines) :
       \A end \in {EdgeLines[i].from, EdgeLines[i].to} :
         Cardinality({k \in 1..Len(NodeLines) : NodeLines[k].id = end}) = 1

\* a third call, after calls that left the counter at other values, with nodes and edges
C9_Witness ==
  /\ Len(emitted) >= 3
  /\ emitted[1].rule # emitted[2].rule /\ emitted[2].rule # emitted[3].rule
  /\ Len(NodeLines) >= 5
  /\ Len(EdgeLines) >= 4

\* C10: two calls with the same rule and options return the same text, whatever was
\* emitted in between; and in every text the edges leaving a node, in the order they are
\* listed, lead to nodes of its operands in operand order, and those nodes are declared in
\* that order too.
C10_DeterministicOrdered ==
  /\ \A i, j \in 1..Len(emitted) :
       (emitted[i].rule = emitted[j].rule /\ emitted[i].options = emitted[j].options)
         => emitted[i].text = emitted[j].text
  /\ \A e \in Range(flow.of) :
       LET out == OutEdges(e.id) IN
       /\ IsSubseq([j \in 1..Len(out) |-> RuleOf(out[j].to)], Operands(e.rule))
       /\ \A j \in 1..(Len(out) - 1) : DeclPos(out[j].to) < DeclPos(out[j + 1].to)

\* a rule emitted, another one emitted, the first emitted again; its text has a node with
\* edges to three different operands
C10_Witness ==
  /\ Len(emitted) >= 3
  /\ emitted[1].rule = emitted[3].rule /\ emitted[1].options = emitted[3].options
  /\ emitted[2].rule # emitted[1].rule
  /\ \E e \in Range(flow.of) :
       LET out == OutEdges(e.id) IN
       /\ Len(out) >= 3
       /\ Cardinality({RuleOf(out[j].to) : j \in 1..Len(out)}) = Len(out)

(***************************************************************************)
(* Properties of the label formatter                                       *)
(***************************************************************************)
\* C11: for every rule shape, degenerate ones included, buildLabel returns a non-empty
\* string (the formatter has no statement that can throw, so a call always returns).
C11_LabelNonEmpty == lastCall.op = "label" => Len(lastCall.ret) > 0

(***************************************************************************)
(* Properties of the shape of the tree                                     *)
(***************************************************************************)
sTrueBranch == <<"t","r","u","e","_","b","r","a","n","c","h">>
sFalseBranch == <<"f","a","l","s","e","_","b","r","a","n","c","h">>

\* r is an if or ?: operation over an operand list
IsConditional(r) ==
  r.t = "obj" /\ Len(r.keys) > 0 /\ r.keys[1].k \in {sIf, sTernary} /\ IsArray(r.keys[1].v)

\* r is a bare variable reference
IsBareVar(r) == r.t = "obj" /\ Len(r.keys) = 1 /\ r.keys[1].k = sVar

\* node is the branch result for v: the tree of v when v is an operation other than a
\* variable reference, else a childless node of v carrying the branch marker
BranchResult(node, v, marker) ==
  /\ node.value = v
  /\ (v.t = "obj" /\ FirstKey(v) # <<sVar>>) \/ (node.operator = <<marker>> /\ node.children = <<>>)

\* node is the right-leaning chain of the operands c1, v1, c2, v2, ..., default
RECURSIVE Chain(_, _)
Chain(node, operands) ==
  /\ Len(operands) >= 3
  /\ node.type = "operator"
  /\ node.label = buildLabel(operands[1], FALSE)
  /\ Len(node.children) = 2
  /\ BranchResult(node.children[1], operands[2], sTrueBranch)
  /\ IF Len(operands) = 3 THEN BranchResult(node.children[2], operands[3], sFalseBranch)
     ELSE Chain(node.children[2], SliceFrom(operands, 2))

\* the calls of the log made on a rule satisfying P
CallsOn(P(_)) == {i \in 1..Len(compiled) : P(Rules[compiled[i].rule])}

IsLongConditional(r) == IsConditional(r) /\ Len(r.keys[1].v.items) > 3

\* C12: for an if/?: operation with more than three operands parseRuleToTree returns the
\* right-leaning chain: one decision node per condition, labeled with the condition, its
\* child 0 the true-branch result, its child 1 the next decision node, and the last
\* decision node's child 1 the false-branch node of the default.
C12_ChainedIfShape ==
  \A i \in CallsOn(IsLongConditional) :
    compiled[i].ok /\ Chain(compiled[i].tree[1], Rules[compiled[i].rule].keys[1].v.items)

\* the same for an odd number of operands only
OddChainShape ==
  \A i \in CallsOn(IsLongConditional) :
    Len(Rules[compiled[i].rule].keys[1].v.items) % 2 = 1
      => compiled[i].ok /\ Chain(compiled[i].tree[1], Rules[compiled[i].rule].keys[1].v.items)

IsShortConditional(r) == IsConditional(r) /\ Len(r.keys[1].v.items) \in {2, 3}

\* v is itself an if or ?: operation
IsIfOperation(v) == v.t = "obj" /\ FirstKey(v) \in {<<sIf>>, <<sTernary>>}

\* node is the decision node of the two or three operands
ShortIfShape(node, operands) ==
  /\ node.type = "operator"
  /\ node.label = buildLabel(operands[1], FALSE)
  /\ Len(node.children) = Len(operands) - 1
  /\ BranchResult(node.children[1], operands[2], sTrueBranch)
  /\ Len(operands) = 3 =>
       IF IsIfOperation(operands[3])
       THEN node.children[2].value = operands[3] /\ node.children[2].operator # <<sFalseBranch>>
       ELSE BranchResult(node.children[2], operands[3], sFalseBranch)

\* C13: for an if/?: operation with exactly two or three operands parseRuleToTree returns
\* a node labeled with the condition whose child 0 is the true-branch result of operand 1;
\* with three operands child 1 is the node built directly from operand 2 when that is an
\* if/?: operation, else the false-branch result of operand 2; with two operands there is
\* no child 1.
C13_ShortIfShape ==
  \A i \in CallsOn(IsShortConditional) :
    compiled[i].ok /\ ShortIfShape(compiled[i].tree[1], Rules[compiled[i].rule].keys[1].v.items)

\* the same for the calls that return
ShortIfShapeWhenReturned ==
  \A i \in CallsOn(IsShortConditional) :
    compiled[i].ok
      => ShortIfShape(compiled[i].tree[1], Rules[compiled[i].rule].keys[1].v.items)

\* r is an operation other than var, if and ?:
IsPlainOperation(r) ==
  r.t = "obj" /\ Len(r.keys) > 0 /\ r.keys[1].k \notin {sVar, sIf, sTernary}

\* an operand that is a list or an operation other than a bare variable reference
IsComplex(v) == IsObjectLike(v) /\ ~IsBareVar(v)

\* node is the node built for the operand v
BuiltFor(node, v) == node.value = v \/ (FirstKey(v) = <<sVar>> /\ node.type = "variable")

\* node is an Operator node with one child per complex operand of r, in operand order
OperatorShape(node, r) ==
  LET expected == SelectSeq(Operands(r), IsComplex) IN
  /\ node.type = "operator"
  /\ Len(node.children) = Len(expected)
  /\ \A j \in 1..Len(expected) : BuiltFor(node.children[j], expected[j])

\* C14: for an operation other than var/if/?:, parseRuleToTree returns an Operator node
\* with exactly one child per operand that is a list or an operation other than a bare
\* variable reference, in operand order, and no child for a primitive or bare-variable
\* operand, whether the operands are a list or a single operand.
C14_OperatorChildren ==
  \A i \in CallsOn(IsPlainOperation) :
    compiled[i].ok /\ OperatorShape(compiled[i].tree[1], Rules[compiled[i].rule])

\* the same for the calls that return a tree for an operation over an operand list
ListOperatorChildrenWhenReturned ==
  \A i \in CallsOn(IsPlainOperation) :
    (compiled[i].ok /\ IsArray(Rules[compiled[i].rule].keys[1].v))
      => OperatorShape(compiled[i].tree[1], Rules[compiled[i].rule])

\* the nodes of a tree
RECURSIVE AllNodes(_)
AllNodes(node) ==
  {node} \cup UNION {AllNodes(node.children[i]) : i \in 1..Len(node.children)}

\* the operand of the var operation a Variable node stands for
VarOperand(node) == node.value.keys[1].v

\* the operand names a path: a string, a number, or a list starting with one
HasPath(operand) ==
  \/ operand.t \in {"str", "num"}
  \/ IsArray(operand) /\ Len(operand.items) > 0 /\ operand.items[1].t \in {"str", "num"}

PathOf(operand) == IF IsArray(operand) THEN String(operand.items[1]) ELSE String(operand)

\* C15: every Variable node of a returned tree, be it the root, an operand or a branch
\* result, is labeled "$" followed by its path, or "(current item)" when the path is the
\* empty string.
C15_VariableLabels ==
  \A i \in 1..Len(compiled) :
    compiled[i].ok =>
      \A n \in AllNodes(compiled[i].tree[1]) :
        (n.type = "variable" /\ HasPath(VarOperand(n))) =>
          n.label = (IF PathOf(VarOperand(n)) = <<>> THEN sCurrentItem
                     ELSE <<"$">> \o PathOf(VarOperand(n)))

\* the same for the Variable nodes with a non-empty path that are not branch results
PlainVariableLabels ==
  \A i \in 1..Len(compiled) :
    compiled[i].ok =>
      \A n \in AllNodes(compiled[i].tree[1]) :
        (/\ n.type = "variable" /\ HasPath(VarOperand(n))
         /\ PathOf(VarOperand(n)) # <<>>
         /\ n.operator \notin {<<sTrueBranch>>, <<sFalseBranch>>}) =>
          n.label = <<"$">> \o PathOf(VarOperand(n))

(***************************************************************************)
(* Properties of the zoom                                                  *)
(***************************************************************************)
\* C16 as stated: the fit zoom is the minimum of viewportWidth / layout.width and
\* viewportHeight / layout.height, capped at 1.
C16_FitZoomOfViewport ==
  lastCall.op = "fit" =>
    LET w == lastCall.layout.width
        h == lastCall.layout.height
    IN /\ zoom.num * w <= lastCall.width * zoom.den
       /\ zoom.num * h <= lastCall.height * zoom.den
       /\ zoom.num <= zoom.den
       /\ \/ zoom.num * w = lastCall.width * zoom.den
          \/ zoom.num * h = lastCall.height * zoom.den
          \/ zoom.num = zoom.den

\* C16, amended: the fit zoom is the minimum of (viewportWidth - 80) / layout.width and
\* (viewportHeight - 80) / layout.height, capped at 1; it never exceeds 1.
C16_FitZoomOfPaddedViewport ==
  lastCall.op = "fit" =>
    LET w == lastCall.layout.width
        h == lastCall.layout.height
    IN /\ zoom.num * w <= (lastCall.width - 80) * zoom.den
       /\ zoom.num * h <= (lastCall.height - 80) * zoom.den
       /\ zoom.num <= zoom.den
       /\ \/ zoom.num * w = (lastCall.width - 80) * zoom.den
          \/ zoom.num * h = (lastCall.height - 80) * zoom.den
          \/ zoom.num = zoom.den

\* a fit where the width decides and the zoom is strictly between 0 and 1
C16_Witness ==
  /\ lastCall.op = "fit"
  /\ 0 < zoom.num /\ zoom.num < zoom.den
  /\ zoom.num * lastCall.layout.width = (lastCall.width - 80) * zoom.den
  /\ zoom.num * lastCall.layout.height < (lastCall.height - 80) * zoom.den

\* the combined horizontal span of the subtrees of the visible children of p
ChildrenLeft(p) == SpanLeft(p.children[1])
ChildrenRight(p) == SpanRight(p.children[Len(p.children)])

\* the returned nodes that are expanded and have children
Parents(l) == {n \in 1..Len(l.nodes) : l.nodes[n].expanded /\ Len(l.nodes[n].children) > 0}

\* C17 (as claimed): after a vertical layout every expanded node with visible children
\* is centered over the combined span of its children's subtrees: the midpoint of its box
\* is the midpoint of the interval from the left edge of the first child's subtree span
\* to the right edge of the last child's, whatever the label lengths
C17_CenteredOverChildren ==
  lastCall.op = "layout" =>
    \A n \in Parents(layout[1]) :
      LET p == layout[1].nodes[n] IN
      2 * p.x[1] + p.width[1] = ChildrenLeft(p) + ChildrenRight(p)

\* C17 (amended): after a vertical layout an expanded node with visible children whose
\* box is no wider than the combined span of its children's subtrees is centered over
\* that span, and a node whose box is wider than the span starts at the span's left edge
C17_CenteredWhenChildrenWider ==
  lastCall.op = "layout" =>
    \A n \in Parents(layout[1]) :
      LET p == layout[1].nodes[n] IN
      IF p.width[1] <= ChildrenRight(p) - ChildrenLeft(p)
      THEN 2 * p.x[1] + p.width[1] = ChildrenLeft(p) + ChildrenRight(p)
      ELSE p.x[1] = ChildrenLeft(p)

\* a layout in which a node below the root stands over several children of different
\* widths whose span is wider than the node, and another node is wider than its children
C17_Witness ==
  /\ lastCall.op = "layout"
  /\ \E n \in Parents(layout[1]) :
       LET p == layout[1].nodes[n] IN
       /\ Len(p.children) >= 2
       /\ p.children[1].width # p.children[2].width
       /\ p.x[1] > ChildrenLeft(p)
  /\ \E n \in Parents(layout[1]) :
       LET p == layout[1].nodes[n] IN p.width[1] > ChildrenRight(p) - ChildrenLeft(p)

BuilderChanges == {"template", "block", "clear", "undo", "redo"}

\* C18 (as claimed): after every change made in the rule builder (template selection,
\* block edit, clear, undo, redo) the text of the JSON editor is the serialization of the
\* builder's current rule
C18_EditorShowsBuilderRule ==
  lastCall.op \in BuilderChanges => ruleText = JSONstringifyIndent(builderRule, 0)

\* supporting C18: the editor follows every change that leaves the builder with a rule
EditorShowsBuilderRuleWhenSet ==
  (lastCall.op \in BuilderChanges /\ builderRule # Null) =>
    ruleText = JSONstringifyIndent(builderRule, 0)

\* C19: toggleNodeExpansion(root, id) flips the expanded flag of exactly the one node
\* whose id is id and leaves the flag of every other node as it was; when no node has
\* that id the returned tree has the flags of the input
C19_ToggleFlipsOneNode ==
  lastCall.op = "toggle" =>
    LET ids == Ids(lastCall.before)
        was == Flags(lastCall.before)
        now == Flags(heap[lastCall.ret])
        hits == {i \in 1..Len(ids) : ids[i] = lastCall.nodeId}
    IN /\ Ids(heap[lastCall.ret]) = ids
       /\ Cardinality(hits) <= 1
       /\ \A i \in 1..Len(ids) : now[i] = (IF i \in hits THEN ~was[i] ELSE was[i])
       /\ hits = {} => now = was

\* a toggle of a node below the root that has children, in a tree in which an earlier
\* toggle has left another node collapsed
C19_Witness ==
  /\ lastCall.op = "toggle"
  /\ LET ids == Ids(lastCall.before)
         was == Flags(lastCall.before)
     IN \E i \in 2..Len(ids) :
          /\ ids[i] = lastCall.nodeId
          /\ \E j \in 1..Len(ids) : j # i /\ ~was[j]
          /\ Flags(heap[lastCall.ret])[i] # was[i]
  /\ \E p \in Range(flattenTree(lastCall.before, <<>>)) :
       LET node == NodeAt(lastCall.before, p) IN
       node.id = lastCall.nodeId /\ Len(node.children) > 0

\* the positions of the nodes of a tree all of whose proper ancestors are expanded, in
\* pre-order
Visible(node) ==
  SelectSeq(flattenTree(node, <<>>),
            LAMBDA p: \A k \in 0..(Len(p) - 1) : NodeAt(node, SubSeq(p, 1, k)).expanded)

\* C20: the nodes calculateTreeLayout returns are exactly the nodes all of whose proper
\* ancestors are expanded, in pre-order; the edges are exactly one per returned node
\* other than the root, from its parent to it; nothing below a collapsed node is
\* returned, every edge joins two returned nodes, and there is one edge less than nodes
C20_LayoutShowsVisibleNodes ==
  lastCall.op = "layout" =>
    LET t == heap[tree]
        shown == Visible(t)
        nodes == layout[1].nodes
        edges == layout[1].edges
        ids == {nodes[i].id : i \in 1..Len(nodes)}
    IN /\ [i \in 1..Len(nodes) |-> nodes[i].id] = [i \in 1..Len(shown) |-> NodeAt(t, shown[i]).id]
       /\ \A i \in 2..Len(shown) :
            Cardinality({e \in 1..Len(edges) :
                           /\ edges[e].target = NodeAt(t, shown[i]).id
                           /\ edges[e].source =
                                NodeAt(t, SubSeq(shown[i], 1, Len(shown[i]) - 1)).id}) = 1
       /\ \A e \in 1..Len(edges) : edges[e].source \in ids /\ edges[e].target \in ids
       /\ \A e \in 1..Len(edges) : edges[e].target # t.id
       /\ Len(edges) = Len(nodes) - 1

\* a layout of a tree in which a collapsed node below the root hides children, a node
\* below an expanded node is shown, and a hidden node is itself expanded
C20_Witness ==
  /\ lastCall.op = "layout"
  /\ LET t == heap[tree]
         all == flattenTree(t, <<>>)
     IN /\ Len(layout[1].nodes) < Len(all)
        /\ Len(layout[1].nodes) >= 3
        /\ \E i \in 1..Len(all) :
             /\ Len(all[i]) >= 2
             /\ NodeAt(t, all[i]).expanded
             /\ ~NodeAt(t, SubSeq(all[i], 1, Len(all[i]) - 1)).expanded
        /\ \E i \in 1..Len(layout[1].nodes) : layout[1].nodes[i].depth >= 2

(***************************************************************************)
(* Single rule or multi-rule object: the classifiers of the validator, of  *)
(* the rule viewer and of the evaluate handler.                            *)
(***************************************************************************)
\* the operators of the type definitions
JSON_LOGIC_OPERATORS ==
  { <<"i", "f">>, <<"=", "=">>, <<"=", "=", "=">>, <<"!", "=">>, <<"!", "=", "=">>, <<"!">>,
    <<"!", "!">>, <<"o", "r">>, <<"a", "n", "d">>, <<">">>, <<">", "=">>, <<"<">>, <<"<", "=">>,
    <<"m", "a", "x">>, <<"m", "i", "n">>, <<"+">>, <<"-">>, <<"*">>, <<"/">>, <<"%">>,
    <<"m", "a", "p">>, <<"f", "i", "l", "t", "e", "r">>, <<"r", "e", "d", "u", "c", "e">>,
    <<"a", "l", "l">>, <<"n", "o", "n", "e">>, <<"s", "o", "m", "e">>,
    <<"m", "e", "r", "g", "e">>, <<"i", "n">>, <<"c", "a", "t">>,
    <<"s", "u", "b", "s", "t", "r">>, <<"v", "a", "r">>, <<"m", "i", "s", "s", "i", "n", "g">>,
    <<"m", "i", "s", "s", "i", "n", "g", "_", "s", "o", "m", "e">>, <<"l", "o", "g">> }

isJsonLogicOperator(key) == key \in JSON_LOGIC_OPERATORS

\* the operator list of the rule viewer
ViewerOperators ==
  { <<"v", "a", "r">>, <<"m", "i", "s", "s", "i", "n", "g">>,
    <<"m", "i", "s", "s", "i", "n", "g", "_", "s", "o", "m", "e">>, <<"i", "f">>, <<"?", ":">>,
    <<"=", "=">>, <<"=", "=", "=">>, <<"!", "=">>, <<"!", "=", "=">>, <<"!">>, <<"!", "!">>,
    <<"o", "r">>, <<"a", "n", "d">>, <<">">>, <<">", "=">>, <<"<">>, <<"<", "=">>,
    <<"m", "a", "x">>, <<"m", "i", "n">>, <<"+">>, <<"-">>, <<"*">>, <<"/">>, <<"%">>,
    <<"m", "a", "p">>, <<"f", "i", "l", "t", "e", "r">>, <<"r", "e", "d", "u", "c", "e">>,
    <<"a", "l", "l">>, <<"s", "o", "m", "e">>, <<"n", "o", "n", "e">>,
    <<"m", "e", "r", "g", "e">>, <<"i", "n">>, <<"c", "a", "t">>,
    <<"s", "u", "b", "s", "t", "r">>, <<"l", "o", "g">>, <<"m", "e", "t", "h", "o", "d">>,
    <<"p", "r", "e", "s", "e", "r", "v", "e">> }

\* the operator list of the evaluate handler
jsonLogicOps ==
  { <<"v", "a", "r">>, <<"i", "f">>, <<"?", ":">>, <<"=", "=">>, <<"=", "=", "=">>,
    <<"!", "=">>, <<"!", "=", "=">>, <<"!">>, <<"!", "!">>, <<"o", "r">>, <<"a", "n", "d">>,
    <<">">>, <<">", "=">>, <<"<">>, <<"<", "=">>, <<"m", "a", "x">>, <<"m", "i", "n">>, <<"+">>,
    <<"-">>, <<"*">>, <<"/">>, <<"%">>, <<"m", "a", "p">>, <<"f", "i", "l", "t", "e", "r">>,
    <<"r", "e", "d", "u", "c", "e">>, <<"a", "l", "l">>, <<"s", "o", "m", "e">>,
    <<"n", "o", "n", "e">>, <<"m", "e", "r", "g", "e">>, <<"i", "n">>, <<"c", "a", "t">>,
    <<"s", "u", "b", "s", "t", "r">>, <<"l", "o", "g">> }

IsPlainObject(value) == value.t = "obj"

\* the validator's classifier
isMultiRuleObject(value) ==
  IF ~IsPlainObject(value) THEN FALSE
  ELSE IF Len(value.keys) = 0 THEN FALSE
  ELSE ~isJsonLogicOperator(value.keys[1].k)

\* the viewer's classifier
viewerIsMultiRuleObject(value) ==
  IF ~IsPlainObject(value) THEN FALSE
  ELSE IF Len(value.keys) = 0 THEN FALSE
  ELSE value.keys[1].k \notin ViewerOperators

\* the first-key test of the evaluate handler
handlerIsMultiRule(value) ==
  LET keys == IF IsPlainObject(value) THEN value.keys ELSE <<>> IN
  Len(keys) > 0 /\ keys[1].k \notin jsonLogicOps

\* the parsed editor values the classifiers are exercised on: objects whose first key is
\* any operator of the three lists or a rule name, with and without a second key, and
\* values that are not objects
FirstKeys == JSON_LOGIC_OPERATORS \cup ViewerOperators \cup jsonLogicOps
               \cup {<<"a", "d", "u", "l", "t">>, <<"r", "1">>}
ClassifyInputs ==
  {Obj(<<[k |-> key, v |-> List(<<Num(1), Num(2)>>)]>>) : key \in FirstKeys}
  \cup {Obj(<<[k |-> key, v |-> List(<<Num(1), Num(2)>>)], [k |-> second, v |-> Num(3)]>>) :
          key \in FirstKeys, second \in {sIf, <<"r", "2">>}}
  \cup {Null, Obj(<<>>), List(<<Num(1)>>), Str(<<"a">>), Num(0), Num(7), Bool(TRUE)}

\* validateJsonLogic(value) takes the multi-rule or the single-rule path
Validate(value) ==
  /\ lastCall' = [op |-> "validate", value |-> value,
                  branch |-> IF isMultiRuleObject(value) THEN "multi" ELSE "single"]
  /\ UNCHANGED <<treeVars, flowVars, viewVars, previewVars, homeVars>>

\* MultiRuleViewer computes its rule entries from parsedValue
ViewRules(value) ==
  /\ lastCall' = [op |-> "view", value |-> value,
                  branch |-> IF ~Truthy(value) THEN "empty"
                             ELSE IF viewerIsMultiRuleObject(value) THEN "multi"
                             ELSE "single"]
  /\ UNCHANGED <<treeVars, flowVars, viewVars, previewVars, homeVars>>

\* handleEvaluate with valid data evaluates each rule of a multi-rule object or the one rule
handleEvaluate(value) ==
  /\ lastCall' = [op |-> "evaluate", value |-> value,
                  branch |-> IF ~Truthy(value) THEN "invalid"
                             ELSE IF handlerIsMultiRule(value) THEN "multi"
                             ELSE "single"]
  /\ UNCHANGED <<treeVars, flowVars, viewVars, previewVars, homeVars>>

ValidateSome == \E value \in ClassifyInputs : Validate(value)
ViewSome == \E value \in ClassifyInputs : ViewRules(value)
EvaluateSome == \E value \in ClassifyInputs : handleEvaluate(value)
NextClassify == ValidateSome \/ ViewSome \/ EvaluateSome
SpecClassify == Init /\ [][NextClassify]_vars


(***************************************************************************)
(* MermaidPreview: the debounced asynchronous rendering of the diagram.    *)
(* React commits a render and runs the effect of the render (the cleanup   *)
(* of the previous effect first) in a later task; timers and the           *)
(* continuations of the awaits are tasks of the same event loop.           *)
(***************************************************************************)
\* the svg mermaid.render produces for a code
Svg(c) == [svgOf |-> c]

\* the parent renders MermaidPreview with another code
ChangeCode(c) ==
  /\ mounted /\ ~effectPending
  /\ changes < MaxChanges
  /\ c # code
  /\ code' = c
  /\ effectPending' = TRUE
  /\ changes' = changes + 1
  /\ lastCall' = [op |-> "code"]
  /\ UNCHANGED <<mounted, svgContent, error, isLoading, runs, cleanup>>
  /\ UNCHANGED <<treeVars, flowVars, viewVars, homeVars>>

\* the parent removes MermaidPreview
Unmount ==
  /\ mounted /\ ~effectPending
  /\ mounted' = FALSE
  /\ effectPending' = TRUE
  /\ lastCall' = [op |-> "unmount"]
  /\ UNCHANGED <<code, svgContent, error, isLoading, runs, cleanup, changes>>
  /\ UNCHANGED <<treeVars, flowVars, viewVars, homeVars>>

\* the cleanup function of an effect: isMounted = false; clearTimeout(timeoutId)
Cleaned(rs, i) ==
  IF i = 0 THEN rs
  ELSE [rs EXCEPT ![i].isMounted = FALSE,
                  ![i].timer = IF rs[i].timer = "armed" THEN "cleared" ELSE rs[i].timer]

\* the effect of the committed render runs, after the cleanup of the previous effect
RunEffect ==
  /\ effectPending
  /\ effectPending' = FALSE
  /\ IF ~mounted THEN
       /\ runs' = Cleaned(runs, cleanup)
       /\ cleanup' = 0
       /\ UNCHANGED <<isLoading, svgContent>>
     ELSE IF code = <<>> THEN
       /\ runs' = Cleaned(runs, cleanup)
       /\ cleanup' = 0
       /\ isLoading' = FALSE
       /\ svgContent' = <<>>
     ELSE
       /\ runs' = Append(Cleaned(runs, cleanup),
                         [code |-> code, isMounted |-> TRUE, timer |-> "armed", stage |-> "idle"])
       /\ cleanup' = Len(runs) + 1
       /\ UNCHANGED <<isLoading, svgContent>>
  /\ lastCall' = [op |-> "effect"]
  /\ UNCHANGED <<code, mounted, error, changes>>
  /\ UNCHANGED <<treeVars, flowVars, viewVars, homeVars>>

\* the debounce timer of run i fires: renderDiagram runs up to its first await
\* (a state update of a component that is no longer mounted is dropped)
TimerFires(i) ==
  /\ runs[i].timer = "armed"
  /\ runs' = [runs EXCEPT ![i].timer = "fired", ![i].stage = "import"]
  /\ isLoading' = IF mounted THEN TRUE ELSE isLoading
  /\ error' = IF mounted THEN <<>> ELSE error
  /\ lastCall' = [op |-> "start", run |-> i]
  /\ UNCHANGED <<code, mounted, effectPending, svgContent, cleanup, changes>>
  /\ UNCHANGED <<treeVars, flowVars, viewVars, homeVars>>

\* the try block of run i ends and writes the state whether or not the cleanup has run
FinishUnguarded(i, ok) ==
  /\ runs' = [runs EXCEPT ![i].stage = "done"]
  /\ svgContent' = IF ~mounted THEN svgContent
                   ELSE IF ok THEN <<Svg(runs[i].code)>> ELSE <<>>
  /\ error' = IF ~mounted THEN error
              ELSE IF ok THEN <<>> ELSE <<"Failed to render diagram">>
  /\ isLoading' = IF mounted THEN FALSE ELSE isLoading
  /\ lastCall' = [op |-> "complete", run |-> i, of |-> runs[i].code, ok |-> ok,
                  wrote |-> TRUE, code |-> code, mounted |-> mounted,
                  pending |-> effectPending, latest |-> Len(runs)]
  /\ UNCHANGED <<code, mounted, effectPending, cleanup, changes>>
  /\ UNCHANGED <<treeVars, flowVars, viewVars, homeVars>>

\* the try block of run i ends: with the svg, or in the catch block; then the finally block
Finish(i, ok) ==
  LET writes == runs[i].isMounted /\ mounted IN
  /\ runs' = [runs EXCEPT ![i].stage = "done"]
  /\ svgContent' = IF ~writes THEN svgContent
                   ELSE IF ok THEN <<Svg(runs[i].code)>> ELSE <<>>
  /\ error' = IF ~writes THEN error
              ELSE IF ok THEN <<>> ELSE <<"Failed to render diagram">>
  /\ isLoading' = IF writes THEN FALSE ELSE isLoading
  /\ lastCall' = [op |-> "complete", run |-> i, of |-> runs[i].code, ok |-> ok,
                  wrote |-> runs[i].isMounted, code |-> code, mounted |-> mounted,
                  pending |-> effectPending, latest |-> Len(runs)]
  /\ UNCHANGED <<code, mounted, effectPending, cleanup, changes>>
  /\ UNCHANGED <<treeVars, flowVars, viewVars, homeVars>>

\* await import('mermaid') of run i resolves, or rejects
ImportResolves(i, ok) ==
  /\ runs[i].stage = "import"
  /\ IF ok THEN
       /\ runs' = [runs EXCEPT ![i].stage = "render"]
       /\ lastCall' = [op |-> "imported", run |-> i]
       /\ UNCHANGED <<code, mounted, effectPending, svgContent, error, isLoading, cleanup, changes>>
       /\ UNCHANGED <<treeVars, flowVars, viewVars, homeVars>>
     ELSE Finish(i, FALSE)

\* await mermaid.render(id, code) of run i resolves, or rejects
RenderCompletes(i, ok) ==
  /\ runs[i].stage = "render"
  /\ Finish(i, ok)

NextPreview ==
  \/ \E c \in Codes : ChangeCode(c)
  \/ Unmount
  \/ RunEffect
  \/ \E i \in 1..Len(runs) : TimerFires(i)
  \/ \E i \in 1..Len(runs) : \E ok \in BOOLEAN : ImportResolves(i, ok)
  \/ \E i \in 1..Len(runs) : \E ok \in BOOLEAN : RenderCompletes(i, ok)

\* the event loop runs every task that is ready: the effect, a timer that is armed, the
\* continuation of an await that settles
SpecPreview ==
  /\ Init /\ [][NextPreview]_vars
  /\ WF_vars(RunEffect)
  /\ WF_vars(\E i \in 1..Len(runs) : TimerFires(i))
  /\ WF_vars(\E i \in 1..Len(runs) : \E ok \in BOOLEAN : ImportResolves(i, ok))
  /\ WF_vars(\E i \in 1..Len(runs) : \E ok \in BOOLEAN : RenderCompletes(i, ok))


\* the decision nodes of a tree: the nodes the builder gives the operator 'if'
DecisionNodes(node) == {n \in AllNodes(node) : n.operator = <<sIf>>}

\* C21 (as claimed): the emitter applies the decision structure of the tree builder: for
\* every rule the number of decision diamonds in the flowchart equals the number of
\* decision nodes of the tree built for the rule, for if and ?: at any position, chained
\* conditionals and conditionals nested under a then/else result
C21_DiamondPerDecisionNode ==
  lastCall.op = "emit" =>
    LET built == parseRuleToTree(Rules[lastCall.rule], <<>>, 0, <<>>, 0, StackLimit) IN
    built.ok => Cardinality(Diamonds) = Cardinality(DecisionNodes(built.node))

\* supporting C21: the counts agree for a conditional of two or three operands whose
\* operands are conditions and results without a conditional inside
PlainShortConditional(r) ==
  /\ r.t = "obj" /\ Len(r.keys) > 0 /\ r.keys[1].k = sIf /\ IsArray(r.keys[1].v)
  /\ Len(r.keys[1].v.items) \in {2, 3}
  /\ \A i \in 1..Len(r.keys[1].v.items) :
       \A q \in SubRules(r.keys[1].v.items[i]) : ~(q.t = "obj" /\ FirstKey(q) \in {<<sIf>>, <<sTernary>>})

DiamondPerDecisionNodeWhenPlain ==
  (lastCall.op = "emit" /\ PlainShortConditional(Rules[lastCall.rule])) =>
    LET built == parseRuleToTree(Rules[lastCall.rule], <<>>, 0, <<>>, 0, StackLimit) IN
    built.ok /\ Cardinality(Diamonds) = 1 /\ Cardinality(DecisionNodes(built.node)) = 1

\* text holds part as a contiguous piece
Contains(text, part) ==
  \E i \in 0..(Len(text) - Len(part)) : SubSeq(text, i + 1, i + Len(part)) = part

ComparisonSymbols == {<<"=","=">>, <<"=","=","=">>, <<"!","=">>, <<"!","=","=">>,
                      <<">">>, <<">","=">>, <<"<">>, <<"<","=">>}

\* the comparison operators of a condition: of the comparison it is, or of the
\* comparisons under its and / or / ! operators
RECURSIVE ConditionComparisons(_)
ConditionComparisons(c) ==
  IF c.t # "obj" \/ Len(c.keys) = 0 THEN {}
  ELSE LET operator == c.keys[1].k
           operands == c.keys[1].v
       IN IF operator \in ComparisonSymbols
          THEN (IF IsArray(operands) /\ Len(operands.items) >= 2 THEN {operator} ELSE {})
          ELSE IF operator \in {sAnd, sOr} /\ IsArray(operands)
          THEN UNION {ConditionComparisons(operands.items[i]) : i \in 1..Len(operands.items)}
          ELSE IF operator = sNot
          THEN ConditionComparisons(IF IsArray(operands) THEN At(operands.items, 0) ELSE operands)
          ELSE {}

\* C22 (as claimed): the label of the decision diamond of an if whose condition is a
\* comparison, possibly under and / or / !, is the expanded boolean expression and holds
\* the comparison operator symbol between the two operand texts
C22_DiamondShowsComparison ==
  \A d \in Diamonds :
    \A operator \in ConditionComparisons(Operands(RuleOf(d.id))[1]) :
      Contains(d.label, <<" ">> \o operator \o <<" ">>)

\* supporting C22: the symbol is in the label when it has no angle bracket and the label
\* was not cut
DiamondShowsEqualityComparison ==
  \A d \in Diamonds :
    \A operator \in ConditionComparisons(Operands(RuleOf(d.id))[1]) :
      (Len(d.label) < 50 /\ Range(operator) \cap {"<", ">"} = {})
        => Contains(d.label, <<" ">> \o operator \o <<" ">>)

\* the number n of the id node-n
IdNumber(id) == CHOOSE n \in 1..200 : NodeId(n) = id

\* node is a decision node the builder made for a conditional of two or more operands
IsDecision(node) ==
  /\ node.type = "operator" /\ node.operator = <<sIf>>
  /\ IsConditional(node.value) /\ Len(node.value.keys[1].v.items) >= 2

\* v is rendered as a leaf: a primitive, a literal array or a var operation
IsLeafResult(v) == v.t # "obj" \/ FirstKey(v) = <<sVar>>
LeafKind(v) == IF v.t = "obj" THEN "variable" ELSE IF v.t = "list" THEN "array" ELSE "value"

RECURSIVE ResultsShaped(_)
RECURSIVE BranchesShaped(_, _)
\* child is what the claim says of the then/else value v in the slot of marker
ResultShaped(child, v, marker) ==
  IF IsLeafResult(v)
  THEN /\ child.children = <<>>
       /\ child.type = LeafKind(v)
       /\ child.operator = <<marker>>
       /\ child.value = v
  ELSE LET built == parseRuleToTree(v, child.parent, child.depth, child.path,
                                    IdNumber(child.id) - 1, StackLimit)
       IN built.ok /\ built.node = child /\ ResultsShaped(child)

\* the branches of the decision node of the operands c1, v1, c2, v2, ..., default
BranchesShaped(node, operands) ==
  /\ Len(node.children) >= 1
  /\ ResultShaped(node.children[1], operands[2], sTrueBranch)
  /\ IF Len(operands) = 2 THEN Len(node.children) = 1
     ELSE /\ Len(node.children) = 2
          /\ IF Len(operands) = 3
             THEN ResultShaped(node.children[2], operands[3], sFalseBranch)
             ELSE BranchesShaped(node.children[2], SliceFrom(operands, 2))

\* every decision node of the tree has its branches so shaped
ResultsShaped(node) ==
  IF IsDecision(node) THEN BranchesShaped(node, node.value.keys[1].v.items)
  ELSE \A i \in 1..Len(node.children) : ResultsShaped(node.children[i])

\* C23: in a tree built for an if, a then/else value that is a primitive, a literal array
\* or a var operation is a childless leaf of kind value, array or variable carrying
\* true_branch or false_branch according to its slot, and a value that is any other
\* operation is exactly the node parseRuleToTree builds for it, with no wrapper between
C23_BranchResults ==
  \A i \in 1..Len(compiled) : compiled[i].ok => ResultsShaped(compiled[i].tree[1])

\* a tree was built with a variable in a then slot, an array in an else slot and an
\* operation other than a conditional as a then result below a second decision node
C23_Witness ==
  /\ lastCall.op = "build" /\ lastCall.ok
  /\ LET nodes == AllNodes(heap[root]) IN
     /\ \E n \in nodes : n.type = "variable" /\ n.operator = <<sTrueBranch>>
     /\ \E n \in nodes : n.type = "array" /\ n.operator = <<sFalseBranch>>
     /\ Cardinality({n \in nodes : IsDecision(n)}) >= 2
     /\ \E n \in nodes : \E k \in 1..Len(n.children) :
          /\ IsDecision(n) /\ n.children[k].type = "operator"
          /\ n.children[k].operator \notin {<<sIf>>, <<sTrueBranch>>, <<sFalseBranch>>}

\* parent and depth of every node below `node` are those of the node holding it
RECURSIVE Linked(_)
Linked(node) ==
  \A i \in 1..Len(node.children) :
    /\ node.children[i].parent = <<node.id>>
    /\ node.children[i].depth = node.depth + 1
    /\ Linked(node.children[i])

\* C24: in every tree a top-level parseRuleToTree call returns the node ids are pairwise
\* distinct, the root has no parent id, every other node's parent is the id of the node
\* whose children hold it, and every child's depth is its parent's depth plus one
C24_TreeWellFormed ==
  \A i \in 1..Len(compiled) :
    compiled[i].ok =>
      LET t == compiled[i].tree[1]
          ids == Ids(t)
      IN /\ \A a, b \in 1..Len(ids) : a # b => ids[a] # ids[b]
         /\ t.parent = <<>>
         /\ Linked(t)

\* a third call returned a tree of three levels with a chain of decision nodes
C24_Witness ==
  /\ Len(compiled) = MaxBuilds
  /\ lastCall.op = "build" /\ lastCall.ok
  /\ \E n \in AllNodes(heap[root]) : n.depth >= 2
  /\ Cardinality({n \in AllNodes(heap[root]) : n.operator = <<sIf>>}) >= 2
  /\ Len(Ids(heap[root])) >= 5

\* the tree with width and height of every node exchanged
RECURSIVE Transposed(_)
Transposed(node) ==
  [node EXCEPT !.width = node.height, !.height = node.width,
               !.children = [i \in 1..Len(node.children) |-> Transposed(node.children[i])]]

\* the vertical configuration with the roles of width and height and of the horizontal
\* and vertical spacing exchanged
TransposedConfig ==
  [nodeWidth |-> DEFAULT_CONFIG.nodeHeight, nodeHeight |-> DEFAULT_CONFIG.nodeWidth,
   horizontalSpacing |-> DEFAULT_CONFIG.verticalSpacing,
   verticalSpacing |-> DEFAULT_CONFIG.horizontalSpacing, orientation |-> "vertical"]

\* the boxes the vertical algorithm gives the visible nodes of the transposed tree
VerticalOfTransposed(t) ==
  collectNodes(assignVerticalPositions(
                 calculateSubtreeWidths(Transposed(assignNodeWidths(t)), TransposedConfig),
                 0, 0, TransposedConfig))

\* C25 (as claimed): the horizontal orientation is the transpose of the vertical one: the
\* (x, y) of each visible node in the horizontal layout is the (y, x) the vertical
\* algorithm gives it with the roles of width and height and of the two spacings exchanged
C25_HorizontalIsTranspose ==
  (lastCall.op = "layoutAs" /\ lastCall.orientation = "horizontal") =>
    LET nodes == layout[1].nodes
        expected == VerticalOfTransposed(heap[tree])
    IN /\ Len(nodes) = Len(expected)
       /\ \A i \in 1..Len(nodes) :
            nodes[i].x = expected[i].y /\ nodes[i].y = expected[i].x

\* vertical extent of the boxes of the visible nodes of a subtree
SpanTop(node) == LET ns == collectNodes(node) IN
  CHOOSE m \in {ns[i].y[1] : i \in 1..Len(ns)} : \A i \in 1..Len(ns) : m <= ns[i].y[1]
SpanBottom(node) == LET ns == collectNodes(node) IN
  CHOOSE m \in {ns[i].y[1] + ns[i].height[1] : i \in 1..Len(ns)} :
    \A i \in 1..Len(ns) : m >= ns[i].y[1] + ns[i].height[1]

\* supporting C25: in the horizontal layout the subtrees of two visible siblings occupy
\* disjoint vertical spans in child order and every visible child lies to the right of
\* its parent's box
HorizontalNoOverlap ==
  (lastCall.op = "layoutAs" /\ lastCall.orientation = "horizontal") =>
    \A n \in 1..Len(layout[1].nodes) :
      LET p == layout[1].nodes[n] IN
      p.expanded =>
        /\ \A i, j \in 1..Len(p.children) :
             i < j => SpanBottom(p.children[i]) <= SpanTop(p.children[j])
        /\ \A i \in 1..Len(p.children) : p.children[i].x[1] >= p.x[1] + p.width[1]

\* the path of a var operation is empty or absent
EmptyPath(path) ==
  \/ path.t = "null"
  \/ path = Str(<<>>)
  \/ path.t = "list" /\ (Len(path.items) = 0 \/ path.items[1] = Str(<<>>))

\* the text of a path that is not empty: the name or number, or the first list element
PathText(path) == IF path.t = "list" THEN String(path.items[1]) ELSE String(path)

IsVarOperation(r) == r.t = "obj" /\ Len(r.keys) > 0 /\ r.keys[1].k = sVar

\* C26 (as claimed): the label of a var operation is the sentinel (item) when the path is
\* empty or absent (empty string, null, empty list, list whose first element is empty),
\* and otherwise the path, string or numeric, in double quotes
C26_VarLabel ==
  (lastCall.op = "label" /\ IsVarOperation(lastCall.rule)) =>
    LET path == lastCall.rule.keys[1].v IN
    lastCall.ret = (IF EmptyPath(path) THEN sItem ELSE Quote(PathText(path)))

\* supporting C26: the claim holds for a path that is a string or a list with a first
\* element
VarLabelOfStringOrFilledList ==
  (lastCall.op = "label" /\ IsVarOperation(lastCall.rule)) =>
    LET path == lastCall.rule.keys[1].v IN
    (path.t = "str" \/ (path.t = "list" /\ Len(path.items) > 0)) =>
      lastCall.ret = (IF EmptyPath(path) THEN sItem ELSE Quote(PathText(path)))

\* C27 (as claimed): the classifiers agree: for one parsed value the validator, the
\* viewer and the evaluate handler all take the multi-rule path or all take the
\* single-rule path
C27_ClassifiersAgree ==
  (lastCall.op \in {"validate", "view", "evaluate"} /\ Truthy(lastCall.value)) =>
    /\ (lastCall.branch = "multi") = isMultiRuleObject(lastCall.value)
    /\ (lastCall.branch = "multi") = viewerIsMultiRuleObject(lastCall.value)
    /\ (lastCall.branch = "multi") = handlerIsMultiRule(lastCall.value)

\* the first key of the value, if it has one, is an operator of all three lists or of none
FirstKeyCommon(value) ==
  (IsPlainObject(value) /\ Len(value.keys) > 0) =>
    \/ value.keys[1].k \in JSON_LOGIC_OPERATORS \cap ViewerOperators \cap jsonLogicOps
    \/ value.keys[1].k \notin JSON_LOGIC_OPERATORS \cup ViewerOperators \cup jsonLogicOps

\* supporting C27: the classifiers agree on every value whose first key is an operator
\* of all three lists or of none of them
ClassifiersAgreeOnCommonKeys ==
  (/\ lastCall.op \in {"validate", "view", "evaluate"}
   /\ Truthy(lastCall.value)
   /\ FirstKeyCommon(lastCall.value)) =>
    /\ (lastCall.branch = "multi") = isMultiRuleObject(lastCall.value)
    /\ (lastCall.branch = "multi") = viewerIsMultiRuleObject(lastCall.value)
    /\ (lastCall.branch = "multi") = handlerIsMultiRule(lastCall.value)

\* no effect is pending, no timer is armed and no render is in flight
Settled ==
  /\ mounted /\ ~effectPending
  /\ \A i \in 1..Len(runs) : runs[i].timer # "armed" /\ runs[i].stage \notin {"import", "render"}

\* what is shown once rendering has settled comes from the latest code
SettledShowsLatest ==
  Settled =>
    IF code = <<>> THEN svgContent = <<>>
    ELSE /\ ~isLoading
         /\ \/ svgContent = <<Svg(code)>> /\ error = <<>>
            \/ svgContent = <<>> /\ error # <<>>

\* C28 (as claimed): a render started for an earlier code never writes svgContent or error
\* after the code prop has changed or the component unmounted, and what is shown once
\* rendering has settled was rendered from the latest code
C28_StaleRenderNeverWrites ==
  /\ (lastCall.op = "complete" /\ lastCall.wrote) =>
       (lastCall.mounted /\ lastCall.of = lastCall.code /\ lastCall.run = lastCall.latest)
  /\ SettledShowsLatest

\* C28 (amended): a render never writes svgContent or error once the cleanup of its effect
\* has run, which React does after the render with the changed code or the unmount is
\* committed; what is shown once rendering has settled was rendered from the latest code
C28_NoWriteAfterCleanup ==
  /\ (lastCall.op = "complete" /\ lastCall.wrote /\ ~lastCall.pending) =>
       (lastCall.mounted /\ lastCall.of = lastCall.code /\ lastCall.run = lastCall.latest)
  /\ SettledShowsLatest

\* a render started for an earlier code completes after its cleanup and writes nothing
C28_Witness ==
  /\ lastCall.op = "complete" /\ ~lastCall.wrote /\ lastCall.ok
  /\ lastCall.of # code /\ mounted /\ ~lastCall.pending

\* supporting C28: rendering settles for as long as the component stays mounted
EventuallySettled == <>[](mounted => Settled)

\* C29: while the rule builder is mounted, 0 <= historyIndex < history.length and the
\* displayed rule is history[historyIndex].rule; undo and redo never change the history
\* list; an edit discards exactly the entries after historyIndex and appends the new rule
C29_HistoryWellFormed ==
  /\ [](activeTab = "builder" =>
          /\ 0 <= historyIndex /\ historyIndex < Len(history)
          /\ builderRule = history[historyIndex + 1].rule)
  /\ [][lastCall'.op \in {"undo", "redo"} => history' = history]_vars
  /\ [][lastCall'.op \in {"template", "block", "clear"} =>
          history' = Append(SubSeq(history, 1, historyIndex + 1), [rule |-> builderRule'])]_vars

\* an edit made after an undo has discarded the undone entry
C29_Witness ==
  /\ lastCall.op \in {"template", "block", "clear"}
  /\ lastCall.discarded > 0
  /\ historyIndex = Len(history) - 1

ZoomInRange == FracLeq(MinZoom, zoom) /\ FracLeq(zoom, MaxZoom)

\* C30 (as claimed): the zoom of the tree view stays within [0.3, 3] in every state
\* reachable by zoom-in, zoom-out, the mouse wheel and fit-to-screen
C30_ZoomInRange == ZoomInRange

\* supporting C30: the zoom never exceeds 3, and zoom-out and the wheel leave it within
\* [0.3, 3] whatever it was before
ZoomCappedAndRestored ==
  /\ FracLeq(zoom, MaxZoom)
  /\ lastCall.op \in {"zoomOut", "wheel"} => ZoomInRange

====
